---- MODULE Spec2Model ----
(***************************************************************************)
(* A model of bitcoinecho/node.                                            *)
(*                                                                         *)
(* The chain manager: BlockChain.AddBlock with fork tracking,              *)
(* reorganisation and the UTXO set (pkg/bitcoin/transaction.go, the UTXO   *)
(* set, pkg/bitcoin/block.go, pkg/bitcoin/pow.go); specification Spec.     *)
(* The same chain manager with a deeper branch of blocks; specification    *)
(* BranchSpec.                                                             *)
(* The peer: Connect, PerformHandshake and Close; specification PeerSpec.  *)
(* The peer message envelope: Serialize and DeserializeP2PMessage;         *)
(* specification WireSpec.                                                 *)
(* The script engine: NewScriptEngine, SetScript and Execute               *)
(* (pkg/bitcoin/script.go); specification ScriptSpec.                      *)
(* The script number codec: numToBytes and bytesToNum; specification       *)
(* NumSpec.                                                                *)
(* The VarInt and transaction codec: EncodeVarInt, DecodeVarInt,           *)
(* Transaction.Serialize and DeserializeTransaction; specification TxSpec. *)
(* Transaction.Validate; specification ValidateSpec.                       *)
(* Proof of work on every uint32: CompactToBigTarget, BigTargetToCompact,  *)
(* ValidateProofOfWork and AdjustDifficulty (pkg/bitcoin/pow.go);          *)
(* specification PowSpec.                                                  *)
(* The cached header id: BlockHeader.Hash (pkg/bitcoin/block.go);          *)
(* specification HeaderSpec.                                               *)
(* CalculateMerkleRoot (pkg/bitcoin/merkle.go); specification MerkleSpec.  *)
(*                                                                         *)
(* Hash256 values are natural numbers, ZeroHash is 0.  The header id       *)
(* (double SHA-256 of the 80 header bytes) is modelled as a collision-free *)
(* numbering of the header fields.  A pointer to a Block is a sequence of  *)
(* length 0 (nil) or 1.  The uint32 0xffffffff is written -1.              *)
(* Each specification leaves the variables of the other parts at their     *)
(* unused values.                                                          *)
(***************************************************************************)
EXTENDS Integers, Sequences, FiniteSets, TLC

\* blocks, utxoSet, tip, forkBlocks: the fields of the BlockChain struct
\* genesis: the argument NewBlockChain was called with
\* last:    the argument and the outcome of the latest AddBlock call: its
\*          error, the branch taken, whether it reorganised, and the key of
\*          the fork the block was put in
\* calls:   the number of AddBlock calls made
\* peer:     the Peer struct
\* conns:    the network connections dialled so far; a connection is named
\*           by its index
\* closes:   the number of Close calls on the peer since it was created or
\*           last connected
\* peerLast: the latest peer call and what it returned
\* wire:     the latest message call: the message, the buffer and the error
\* engine:   the ScriptEngine struct
\* run:      the latest engine call, what it returned and its opcode steps
\* calc:     the latest call of a function of the codecs, of the proof of
\*           work or of the Merkle tree: its name, argument and result
VARIABLES blocks, utxoSet, tip, forkBlocks, genesis, last, calls,
          peer, conns, closes, peerLast,
          wire,
          engine, run,
          calc

chainVars == <<blocks, utxoSet, tip, forkBlocks, genesis, last, calls>>

peerVars == <<peer, conns, closes, peerLast>>

wireVars == <<wire>>

scriptVars == <<engine, run>>

calcVars == <<calc>>

vars == <<chainVars, peerVars, wireVars, scriptVars, calcVars>>

ChainUnused ==
    /\ blocks = << >>
    /\ utxoSet = << >>
    /\ tip = << >>
    /\ forkBlocks = << >>
    /\ genesis = << >>
    /\ last = << >>
    /\ calls = 0

PeerUnused ==
    /\ peer = << >>
    /\ conns = << >>
    /\ closes = 0
    /\ peerLast = << >>

WireUnused == wire = << >>

ScriptUnused ==
    /\ engine = << >>
    /\ run = << >>

CalcUnused == calc = << >>

\* ------------------------------------------------------------------ bounds
MaxCalls == 10

\* --------------------------------------------------------------- constants
ZeroHash == 0

NullIndex == -1

NonceList == <<1, 2, 12345, 19999, 20000, 50000, 59999, 60000>>

\* compact targets used in headers: 0 is invalid (target 0), 0x04007fff
\* decodes to 0x7fff00
BitsList == <<0, 67141631>>

NoBits == BitsList[1]

EasyBits == BitsList[2]

\* ------------------------------------------------------- hashing and PoW
RECURSIVE Pow256(_)
Pow256(n) == IF n = 0 THEN 1 ELSE 256 * Pow256(n - 1)

IndexOf(seq, x) == CHOOSE i \in 1..Len(seq) : seq[i] = x

\* BlockHeader.Hash: a collision-free id of the header fields, never zero
HeaderHash(h) ==
    IndexOf(NonceList, h.Nonce)
      + Len(NonceList) * ((IndexOf(BitsList, h.Bits) - 1) + Len(BitsList) * h.PrevBlockHash)

\* Block.Hash
BlockHash(b) == HeaderHash(b.Header)

CompactToBigTarget(compactBits) ==
    IF compactBits = 0 THEN 0
    ELSE LET exponent == compactBits \div 16777216
             mantissa == compactBits % 16777216
         IN  IF exponent > 32 THEN 0
             ELSE IF exponent <= 3
                  THEN IF exponent < 3 THEN mantissa \div Pow256(3 - exponent) ELSE mantissa
                  ELSE mantissa * Pow256(exponent - 3)

ValidateProofOfWork(blockHash, targetBits) ==
    blockHash <= CompactToBigTarget(targetBits)

\* the test escape hatch of validateBlock and validateForkBlock
isTestBlock(block) ==
    \/ block.Header.Nonce = 1
    \/ (block.Header.Nonce >= 12345 /\ block.Header.Nonce < 20000)
    \/ (block.Header.Nonce >= 50000 /\ block.Header.Nonce < 60000)

\* ----------------------------------------------------------- transactions
\* Transaction.Hash: the transaction id is the zero hash for every transaction
TxHash(tx) == ZeroHash

IsCoinbase(tx) ==
    /\ Len(tx.Inputs) = 1
    /\ tx.Inputs[1].PreviousOutput.Hash = ZeroHash
    /\ tx.Inputs[1].PreviousOutput.Index = NullIndex

\* ---------------------------------------------------------------- UTXO set
makeKey(txHash, outputIndex) == <<txHash, outputIndex>>

NewUTXOSet == << >>

NewUTXO(txHash, outputIndex, amount, scriptPubKey) ==
    [txHash |-> txHash, outputIndex |-> outputIndex,
     amount |-> amount, scriptPubKey |-> scriptPubKey]

UTXOAdd(utxos, utxo) ==
    LET key == makeKey(utxo.txHash, utxo.outputIndex)
    IN  [k \in (DOMAIN utxos) \cup {key} |-> IF k = key THEN utxo ELSE utxos[k]]

UTXORemove(utxos, txHash, outputIndex) ==
    LET key == makeKey(txHash, outputIndex)
    IN  [k \in (DOMAIN utxos) \ {key} |-> utxos[k]]

UTXOFind(utxos, txHash, outputIndex) == makeKey(txHash, outputIndex) \in DOMAIN utxos

RECURSIVE removeInputs(_, _, _)
removeInputs(utxos, inputs, i) ==
    IF i > Len(inputs) THEN utxos
    ELSE removeInputs(UTXORemove(utxos, inputs[i].PreviousOutput.Hash,
                                 inputs[i].PreviousOutput.Index), inputs, i + 1)

RECURSIVE addOutputs(_, _, _, _)
addOutputs(utxos, txHash, outputs, j) ==
    IF j > Len(outputs) THEN utxos
    ELSE addOutputs(UTXOAdd(utxos, NewUTXO(txHash, j - 1, outputs[j].Value,
                                           outputs[j].ScriptPubKey)),
                    txHash, outputs, j + 1)

\* processTransaction with the outputs added before the inputs are removed
processTransaction_AddFirst(utxos, tx) ==
    LET made == addOutputs(utxos, TxHash(tx), tx.Outputs, 1)
    IN  IF ~IsCoinbase(tx) THEN removeInputs(made, tx.Inputs, 1) ELSE made

processTransaction(utxos, tx) ==
    LET spent == IF ~IsCoinbase(tx) THEN removeInputs(utxos, tx.Inputs, 1) ELSE utxos
    IN  addOutputs(spent, TxHash(tx), tx.Outputs, 1)

RECURSIVE processTransactionsFrom(_, _, _)
processTransactionsFrom(utxos, txs, i) ==
    IF i > Len(txs) THEN utxos
    ELSE processTransactionsFrom(processTransaction(utxos, txs[i]), txs, i + 1)

processBlockTransactions(utxos, block) ==
    processTransactionsFrom(utxos, block.Transactions, 1)

RECURSIVE processBlocksFrom(_, _, _)
processBlocksFrom(utxos, chain, i) ==
    IF i > Len(chain) THEN utxos
    ELSE processBlocksFrom(processBlockTransactions(utxos, chain[i]), chain, i + 1)

\* Clear, then process all blocks in order
rebuildUTXOSet(chain) == processBlocksFrom(NewUTXOSet, chain, 1)

\* -------------------------------------------------------------- the chain
Ok == "ok"

NoKey == << >>

\* fmt.Sprintf("fork_%s", hash.String())
ForkKey(prevHash) == <<"fork", prevHash>>

Max(S) == CHOOSE x \in S : \A y \in S : y <= x

\* the BlockChain struct
BC == [blocks |-> blocks, utxoSet |-> utxoSet, tip |-> tip, forkBlocks |-> forkBlocks]

Height(chain) == IF Len(chain) = 0 THEN -1 ELSE Len(chain) - 1

GetBlock(chain, height) ==
    IF height < 0 \/ height >= Len(chain) THEN << >> ELSE <<chain[height + 1]>>

validateBlock(bc, block) ==
    IF Len(bc.blocks) = 0
    THEN IF Len(block.Transactions) = 0
         THEN "genesis block must have at least one transaction"
         ELSE Ok
    ELSE IF block.Header.PrevBlockHash # BlockHash(bc.tip[1])
    THEN "invalid previous block hash"
    ELSE IF ~isTestBlock(block) /\ ~ValidateProofOfWork(BlockHash(block), block.Header.Bits)
    THEN "invalid proof of work"
    ELSE IF Len(block.Transactions) = 0
    THEN "block must have at least one transaction"
    ELSE IF ~IsCoinbase(block.Transactions[1])
    THEN "first transaction must be coinbase"
    ELSE Ok

validateForkBlock(block) ==
    IF Len(block.Transactions) = 0
    THEN "block must have at least one transaction"
    ELSE IF ~IsCoinbase(block.Transactions[1])
    THEN "first transaction must be coinbase"
    ELSE IF ~isTestBlock(block) /\ ~ValidateProofOfWork(BlockHash(block), block.Header.Bits)
    THEN "invalid proof of work"
    ELSE Ok

\* the 0-based height of the last active block whose id is prevHash, or -1
findForkPoint(chain, prevHash) ==
    LET hits == {i \in 1..Len(chain) : BlockHash(chain[i]) = prevHash}
    IN  IF hits = {} THEN -1 ELSE Max(hits) - 1

\* The results the map iteration can produce: one <<forkKey, forkPoint>> for
\* every tracked fork that holds a block with id prevHash (Go iterates a map
\* in an unspecified order and the function returns at the first hit), or
\* <<NoKey, -1>> when there is none.
\* faulty variant: only the last block of a fork is compared to prevHash
findForkConnection_LastOnly(bc, prevHash) ==
    LET hits == {k \in DOMAIN bc.forkBlocks :
                    BlockHash(bc.forkBlocks[k][Len(bc.forkBlocks[k])]) = prevHash}
    IN  IF hits = {} THEN {<<NoKey, -1>>}
        ELSE {<<k, findForkPoint(bc.blocks, bc.forkBlocks[k][1].Header.PrevBlockHash)>> :
                 k \in hits}

findForkConnection(bc, prevHash) ==
    LET hits == {k \in DOMAIN bc.forkBlocks :
                    \E i \in 1..Len(bc.forkBlocks[k]) :
                        BlockHash(bc.forkBlocks[k][i]) = prevHash}
    IN  IF hits = {} THEN {<<NoKey, -1>>}
        ELSE {<<k, findForkPoint(bc.blocks, bc.forkBlocks[k][1].Header.PrevBlockHash)>> :
                 k \in hits}

\* faulty variant: the UTXO set is not rebuilt after the chain is replaced
reorganizeToFork_KeepUtxo(bc, forkPoint, fork) ==
    LET newBlocks == SubSeq(bc.blocks, 1, forkPoint + 1) \o fork
    IN  [bc EXCEPT !.blocks = newBlocks,
                   !.tip = <<fork[Len(fork)]>>]

\* faulty variant: the truncation also drops the block at the fork point
reorganizeToFork_DropRoot(bc, forkPoint, fork) ==
    LET newBlocks == SubSeq(bc.blocks, 1, forkPoint) \o fork
    IN  [bc EXCEPT !.blocks = newBlocks,
                   !.tip = <<fork[Len(fork)]>>,
                   !.utxoSet = rebuildUTXOSet(newBlocks)]

\* faulty variant: the tip is left on the displaced branch
reorganizeToFork_StaleTip(bc, forkPoint, fork) ==
    LET newBlocks == SubSeq(bc.blocks, 1, forkPoint + 1) \o fork
    IN  [bc EXCEPT !.blocks = newBlocks,
                   !.utxoSet = rebuildUTXOSet(newBlocks)]

\* faulty variant: only the last block of the fork is adopted
reorganizeToFork_LastOnly(bc, forkPoint, fork) ==
    LET newBlocks == Append(SubSeq(bc.blocks, 1, forkPoint + 1), fork[Len(fork)])
    IN  [bc EXCEPT !.blocks = newBlocks,
                   !.tip = <<fork[Len(fork)]>>,
                   !.utxoSet = rebuildUTXOSet(newBlocks)]

reorganizeToFork(bc, forkPoint, fork) ==
    LET newBlocks == SubSeq(bc.blocks, 1, forkPoint + 1) \o fork
    IN  [bc EXCEPT !.blocks = newBlocks,
                   !.tip = <<fork[Len(fork)]>>,
                   !.utxoSet = rebuildUTXOSet(newBlocks)]

\* faulty variant: a one-block fork does not replace an entry already
\* tracked under the key
SetFork_KeepTracked(forks, key, chain) ==
    IF key \in DOMAIN forks /\ Len(chain) = 1 THEN forks
    ELSE [k \in (DOMAIN forks) \cup {key} |-> IF k = key THEN chain ELSE forks[k]]

SetFork(forks, key, chain) ==
    [k \in (DOMAIN forks) \cup {key} |-> IF k = key THEN chain ELSE forks[k]]

\* faulty variant: a fork of equal length is adopted too
extendFork_OnEqual(bc, block, conn) ==
    LET forkKey == conn[1]
        forkIndex == conn[2]
    IN  IF forkKey = NoKey
        THEN [bc |-> bc, err |-> "block does not connect to any known block",
              path |-> "unconnected", reorg |-> FALSE, key |-> NoKey]
        ELSE LET grown == Append(bc.forkBlocks[forkKey], block)
                 bc1 == [bc EXCEPT !.forkBlocks = SetFork(bc.forkBlocks, forkKey, grown)]
                 forkLength == Len(grown)
                 mainChainFromFork == Len(bc.blocks) - forkIndex - 1
             IN  IF forkLength >= mainChainFromFork
                 THEN [bc |-> reorganizeToFork(bc1, forkIndex, grown), err |-> Ok,
                       path |-> "fork_extend", reorg |-> TRUE, key |-> forkKey]
                 ELSE [bc |-> bc1, err |-> Ok, path |-> "fork_extend", reorg |-> FALSE,
                       key |-> forkKey]

\* the branch of handlePotentialReorganization taken when the block's
\* predecessor is in no active block; conn is findForkConnection's result
extendFork(bc, block, conn) ==
    LET forkKey == conn[1]
        forkIndex == conn[2]
    IN  IF forkKey = NoKey
        THEN [bc |-> bc, err |-> "block does not connect to any known block",
              path |-> "unconnected", reorg |-> FALSE, key |-> NoKey]
        ELSE LET grown == Append(bc.forkBlocks[forkKey], block)
                 bc1 == [bc EXCEPT !.forkBlocks = SetFork(bc.forkBlocks, forkKey, grown)]
                 forkLength == Len(grown)
                 mainChainFromFork == Len(bc.blocks) - forkIndex - 1
             IN  IF forkLength > mainChainFromFork
                 THEN [bc |-> reorganizeToFork(bc1, forkIndex, grown), err |-> Ok,
                       path |-> "fork_extend", reorg |-> TRUE, key |-> forkKey]
                 ELSE [bc |-> bc1, err |-> Ok, path |-> "fork_extend", reorg |-> FALSE,
                       key |-> forkKey]

\* faulty variant: the fork entry is stored before the block is validated
startFork_TrackFirst(bc, block, forkPoint) ==
    LET forkKey == ForkKey(block.Header.PrevBlockHash)
        bc1 == [bc EXCEPT !.forkBlocks = SetFork(bc.forkBlocks, forkKey, <<block>>)]
        forkBlocksFromPoint == 1
        mainChainFromFork == Len(bc.blocks) - forkPoint - 1
    IN  IF validateForkBlock(block) # Ok
        THEN [bc |-> bc1, err |-> "fork block validation failed",
              path |-> "fork_start", reorg |-> FALSE, key |-> NoKey]
        ELSE IF forkBlocksFromPoint > mainChainFromFork
             THEN [bc |-> reorganizeToFork(bc1, forkPoint, <<block>>), err |-> Ok,
                   path |-> "fork_start", reorg |-> TRUE, key |-> forkKey]
             ELSE [bc |-> bc1, err |-> Ok, path |-> "fork_start", reorg |-> FALSE,
                   key |-> forkKey]

\* the branch taken when the block's predecessor is an active block
startFork(bc, block, forkPoint) ==
    IF validateForkBlock(block) # Ok
    THEN [bc |-> bc, err |-> "fork block validation failed",
          path |-> "fork_start", reorg |-> FALSE, key |-> NoKey]
    ELSE LET forkKey == ForkKey(block.Header.PrevBlockHash)
             bc1 == [bc EXCEPT !.forkBlocks = SetFork(bc.forkBlocks, forkKey, <<block>>)]
             forkBlocksFromPoint == 1
             mainChainFromFork == Len(bc.blocks) - forkPoint - 1
         IN  IF forkBlocksFromPoint > mainChainFromFork
             THEN [bc |-> reorganizeToFork(bc1, forkPoint, <<block>>), err |-> Ok,
                   path |-> "fork_start", reorg |-> TRUE, key |-> forkKey]
             ELSE [bc |-> bc1, err |-> Ok, path |-> "fork_start", reorg |-> FALSE,
                   key |-> forkKey]

\* the set of outcomes of handlePotentialReorganization
handlePotentialReorganization(bc, block) ==
    LET forkPoint == findForkPoint(bc.blocks, block.Header.PrevBlockHash)
    IN  IF forkPoint = -1
        THEN {extendFork(bc, block, conn) :
                 conn \in findForkConnection(bc, block.Header.PrevBlockHash)}
        ELSE {startFork(bc, block, forkPoint)}

\* extendTip that also records the block in the forks map
extendTip_TrackFork(bc, block) ==
    IF validateBlock(bc, block) # Ok
    THEN [bc |-> bc, err |-> "block validation failed", path |-> "tip", reorg |-> FALSE,
          key |-> NoKey]
    ELSE [bc |-> [bc EXCEPT !.blocks = Append(bc.blocks, block),
                            !.tip = <<block>>,
                            !.utxoSet = processBlockTransactions(bc.utxoSet, block),
                            !.forkBlocks = SetFork(bc.forkBlocks,
                                                   ForkKey(block.Header.PrevBlockHash),
                                                   <<block>>)],
          err |-> Ok, path |-> "tip", reorg |-> FALSE, key |-> NoKey]

\* the normal block addition on the tip
extendTip(bc, block) ==
    IF validateBlock(bc, block) # Ok
    THEN [bc |-> bc, err |-> "block validation failed", path |-> "tip", reorg |-> FALSE,
          key |-> NoKey]
    ELSE [bc |-> [bc EXCEPT !.blocks = Append(bc.blocks, block),
                            !.tip = <<block>>,
                            !.utxoSet = processBlockTransactions(bc.utxoSet, block)],
          err |-> Ok, path |-> "tip", reorg |-> FALSE, key |-> NoKey]

\* faulty variant: a block given to an empty chain takes the tip path
AddBlockOutcomes_EmptyIsTip(bc, arg) ==
    IF arg = << >>
    THEN {[bc |-> bc, err |-> "cannot add nil block", path |-> "nil", reorg |-> FALSE,
           key |-> NoKey]}
    ELSE LET block == arg[1]
         IN  IF bc.tip = << >> \/ block.Header.PrevBlockHash = BlockHash(bc.tip[1])
             THEN {extendTip(bc, block)}
             ELSE handlePotentialReorganization(bc, block)

\* the set of outcomes of BlockChain.AddBlock; arg is the block pointer
AddBlockOutcomes(bc, arg) ==
    IF arg = << >>
    THEN {[bc |-> bc, err |-> "cannot add nil block", path |-> "nil", reorg |-> FALSE,
           key |-> NoKey]}
    ELSE LET block == arg[1]
         IN  IF bc.tip # << >> /\ block.Header.PrevBlockHash = BlockHash(bc.tip[1])
             THEN {extendTip(bc, block)}
             ELSE handlePotentialReorganization(bc, block)

NewBlockChain(genesisBlock) ==
    IF genesisBlock # << >>
    THEN [blocks |-> <<genesisBlock[1]>>,
          utxoSet |-> processBlockTransactions(NewUTXOSet, genesisBlock[1]),
          tip |-> genesisBlock,
          forkBlocks |-> << >>]
    ELSE [blocks |-> << >>, utxoSet |-> NewUTXOSet, tip |-> << >>, forkBlocks |-> << >>]

\* ------------------------------------------------- the blocks submitted
Script == <<118>>

OutPoint(hash, index) == [Hash |-> hash, Index |-> index]

TxInput(hash, index) == [PreviousOutput |-> OutPoint(hash, index)]

TxOutput(value) == [Value |-> value, ScriptPubKey |-> Script]

\* a coinbase transaction paying one output of the given value
Coinbase(value) ==
    [Inputs |-> <<TxInput(ZeroHash, NullIndex)>>, Outputs |-> <<TxOutput(value)>>]

\* spends output 0 of the (zero) transaction id and pays two outputs
Spend == [Inputs |-> <<TxInput(ZeroHash, 0)>>, Outputs |-> <<TxOutput(30), TxOutput(20)>>]

\* spends an outpoint no transaction ever creates
SpendMissing == [Inputs |-> <<TxInput(9, 0)>>, Outputs |-> <<TxOutput(7)>>]

NewBlock(prevHash, bits, nonce, transactions) ==
    [Header |-> [PrevBlockHash |-> prevHash, Bits |-> bits, Nonce |-> nonce],
     Transactions |-> transactions]

Genesis == NewBlock(ZeroHash, EasyBits, 2, <<Coinbase(50)>>)

\* the first-seen branch
A1 == NewBlock(BlockHash(Genesis), NoBits, 1, <<Coinbase(51)>>)

A2 == NewBlock(BlockHash(A1), EasyBits, 2, <<Coinbase(52), Spend>>)

\* a branch from A1
B2 == NewBlock(BlockHash(A1), NoBits, 12345, <<Coinbase(53)>>)

B3 == NewBlock(BlockHash(B2), NoBits, 19999, <<Coinbase(54)>>)

\* a branch from the genesis block
C1 == NewBlock(BlockHash(Genesis), NoBits, 50000, <<Coinbase(55)>>)

C2 == NewBlock(BlockHash(C1), NoBits, 59999, <<Coinbase(56)>>)

\* blocks that fail a validation rule
EmptyOnGenesis == NewBlock(BlockHash(Genesis), NoBits, 1, << >>)

EmptyOnC1 == NewBlock(BlockHash(C1), NoBits, 1, << >>)

NoCoinbaseOnC1 == NewBlock(BlockHash(C1), EasyBits, 2, <<Spend>>)

BadPowOnGenesis == NewBlock(BlockHash(Genesis), NoBits, 60000, <<Coinbase(57)>>)

BadPowOnC1 == NewBlock(BlockHash(C1), NoBits, 20000, <<Coinbase(58)>>)

\* passes every check of validateBlock, spends a missing outpoint
MissingSpendOnA1 == NewBlock(BlockHash(A1), NoBits, 1, <<Coinbase(59), SpendMissing>>)

\* its predecessor is never submitted
Orphan == NewBlock(777, NoBits, 1, <<Coinbase(60)>>)

ValidBlocks == {A1, A2, B2, B3, C1, C2}

Blocks ==
    ValidBlocks \cup {EmptyOnGenesis, EmptyOnC1, NoCoinbaseOnC1, BadPowOnGenesis,
                      BadPowOnC1, MissingSpendOnA1, Orphan, Genesis}

\* ---------------------------------------------------------- specification
Init ==
    \E genesisBlock \in {<<Genesis>>, << >>} :
        LET bc == NewBlockChain(genesisBlock)
        IN  /\ blocks = bc.blocks
            /\ utxoSet = bc.utxoSet
            /\ tip = bc.tip
            /\ forkBlocks = bc.forkBlocks
            /\ genesis = genesisBlock
            /\ last = [arg |-> genesisBlock, err |-> Ok, path |-> "new", reorg |-> FALSE,
                       key |-> NoKey]
            /\ calls = 0
            /\ PeerUnused
            /\ WireUnused
            /\ ScriptUnused
            /\ CalcUnused

\* one call bc.AddBlock(arg)
Call(arg) ==
    \E out \in AddBlockOutcomes(BC, arg) :
        /\ blocks' = out.bc.blocks
        /\ utxoSet' = out.bc.utxoSet
        /\ tip' = out.bc.tip
        /\ forkBlocks' = out.bc.forkBlocks
        /\ last' = [arg |-> arg, err |-> out.err, path |-> out.path, reorg |-> out.reorg,
                    key |-> out.key]
        /\ calls' = calls + 1
        /\ UNCHANGED <<genesis, peerVars, wireVars, scriptVars, calcVars>>

AddBlock ==
    /\ calls < MaxCalls
    /\ \E arg \in {<<b>> : b \in Blocks} \cup {<< >>} : Call(arg)

Next == AddBlock

Spec == Init /\ [][Next]_vars

\* ------------------------------------------------------------------ claims
Accepted == last.path # "new" /\ last.err = Ok

Rejected == last.err # Ok

\* C1: every active block above index 0 names the id of the active block
\* right below it as its predecessor
C1_ChainLinked ==
    genesis # << >> =>
        \A i \in 2..Len(blocks) :
            blocks[i].Header.PrevBlockHash = BlockHash(blocks[i - 1])

\* C2: index 0 of the active chain is the genesis block the chain was
\* created with, and its predecessor is the zero hash
C2_GenesisKept ==
    genesis # << >> =>
        /\ Len(blocks) >= 1
        /\ blocks[1] = genesis[1]
        /\ blocks[1].Header.PrevBlockHash = ZeroHash

\* the reference replay: starting from the given set, each transaction of
\* each block in order removes the outpoints its inputs name (unless it is
\* a coinbase) and then adds one entry per output
ReplayTx(set, tx) ==
    LET spent == IF IsCoinbase(tx) THEN {}
                 ELSE {<<tx.Inputs[i].PreviousOutput.Hash, tx.Inputs[i].PreviousOutput.Index>> :
                          i \in 1..Len(tx.Inputs)}
        made == {<<TxHash(tx), j - 1>> : j \in 1..Len(tx.Outputs)}
    IN  [k \in ((DOMAIN set) \ spent) \cup made |->
            IF k \in made
            THEN [txHash |-> k[1], outputIndex |-> k[2],
                  amount |-> tx.Outputs[k[2] + 1].Value,
                  scriptPubKey |-> tx.Outputs[k[2] + 1].ScriptPubKey]
            ELSE set[k]]

RECURSIVE ReplayTxs(_, _)
ReplayTxs(set, txs) ==
    IF txs = << >> THEN set ELSE ReplayTxs(ReplayTx(set, Head(txs)), Tail(txs))

RECURSIVE Replay(_, _)
Replay(set, chain) ==
    IF chain = << >> THEN set
    ELSE Replay(ReplayTxs(set, Head(chain).Transactions), Tail(chain))

\* C3: in every state between two calls the UTXO set is the replay, from
\* the empty set, of every transaction of every block of the active chain
C3_UtxoIsReplay == utxoSet = Replay(<< >>, blocks)

\* a reorganisation has replaced a branch whose entries differ from the
\* adopted branch's
C3_Witness ==
    /\ last.reorg
    /\ Len(blocks) >= 3
    /\ utxoSet # << >>
    /\ \E k \in DOMAIN forkBlocks : Len(forkBlocks[k]) >= 2

\* C4: a call that returns an error leaves the active chain, the tip, the
\* UTXO set and the forks map as they were
C4_RejectedMutatesNothing ==
    [][last'.err # Ok =>
          /\ blocks' = blocks
          /\ tip' = tip
          /\ utxoSet' = utxoSet
          /\ forkBlocks' = forkBlocks]_vars

\* a fork block has been rejected while forks are tracked
C4_Witness ==
    /\ last.err # Ok
    /\ last.path = "fork_start"
    /\ DOMAIN forkBlocks # {}

\* the three checks of block validation
PassesBlockChecks(b) ==
    /\ Len(b.Transactions) >= 1
    /\ IsCoinbase(b.Transactions[1])
    /\ \/ ValidateProofOfWork(BlockHash(b), b.Header.Bits)
       \/ b.Header.Nonce = 1
       \/ b.Header.Nonce \in 12345..19999
       \/ b.Header.Nonce \in 50000..59999

HeldBlocks ==
    {blocks[i] : i \in 2..Len(blocks)}
      \cup UNION {{forkBlocks[k][i] : i \in 1..Len(forkBlocks[k])} : k \in DOMAIN forkBlocks}

\* C5: every accepted block, and so every non-genesis block held in the
\* active chain or in a fork, has a transaction, starts with a coinbase and
\* passes proof of work or carries an escape-hatch nonce
C5_AcceptedBlocksValid ==
    /\ Accepted => PassesBlockChecks(last.arg[1])
    /\ \A b \in HeldBlocks : PassesBlockChecks(b)

\* whether every non-coinbase input of the transactions names an outpoint
\* that is in the set when the input is applied
RECURSIVE SpendsPresentTxs(_, _)
SpendsPresentTxs(set, txs) ==
    IF txs = << >> THEN TRUE
    ELSE LET tx == Head(txs)
         IN  /\ IsCoinbase(tx) \/
                  \A i \in 1..Len(tx.Inputs) :
                      /\ <<tx.Inputs[i].PreviousOutput.Hash,
                           tx.Inputs[i].PreviousOutput.Index>> \in DOMAIN set
                      /\ \A j \in 1..(i - 1) :
                            tx.Inputs[j].PreviousOutput # tx.Inputs[i].PreviousOutput
             /\ SpendsPresentTxs(ReplayTx(set, tx), Tail(txs))

RECURSIVE SpendsPresent(_, _)
SpendsPresent(set, chain) ==
    IF chain = << >> THEN TRUE
    ELSE /\ SpendsPresentTxs(set, Head(chain).Transactions)
         /\ SpendsPresent(ReplayTxs(set, Head(chain).Transactions), Tail(chain))

\* C6: every non-coinbase input of the active chain names an outpoint that
\* is unspent at the moment the input is applied
C6_SpendsChecked == SpendsPresent(<< >>, blocks)

\* the largest index (0-based) of an active block whose id is the
\* predecessor of the fork's first block, or -1 when there is none
RootIndex(chain, fork) ==
    LET at == {i \in 0..(Len(chain) - 1) :
                  BlockHash(chain[i + 1]) = fork[1].Header.PrevBlockHash}
    IN  IF at = {} THEN -1 ELSE CHOOSE i \in at : \A k \in at : k <= i

\* the call has put its block into a fork
InsertedInFork(l) == l.err = Ok /\ l.path \in {"fork_start", "fork_extend"}

\* C7: when the fork the block went into is rooted at active index p and is
\* now strictly longer than the active chain above p, the active chain
\* becomes active[0..p] followed by the fork, the tip is the fork's last
\* block and the height is p + |F|
C7_LongerForkAdopted ==
    [][InsertedInFork(last') =>
          LET F == forkBlocks'[last'.key]
              p == RootIndex(blocks, F)
          IN  (p >= 0 /\ Len(F) > Len(blocks) - p - 1) =>
                  /\ blocks' = SubSeq(blocks, 1, p + 1) \o F
                  /\ tip' = <<F[Len(F)]>>
                  /\ Height(blocks') = p + Len(F)]_vars

\* a fork rooted in the active chain has just been adopted and has
\* displaced at least one active block
C7_Witness ==
    /\ InsertedInFork(last)
    /\ last.reorg
    /\ LET F == forkBlocks[last.key]
       IN  /\ Len(F) >= 2
           /\ Len(blocks) > Len(F)
           /\ BlockHash(blocks[Len(blocks) - Len(F)]) = F[1].Header.PrevBlockHash

\* C8: when the fork the block went into is not longer than the active
\* chain above its fork point, the active chain, the tip and the UTXO set
\* are unchanged
C8_ShorterForkKeepsChain ==
    [][InsertedInFork(last') =>
          LET F == forkBlocks'[last'.key]
              p == RootIndex(blocks, F)
          IN  (p >= 0 /\ Len(F) <= Len(blocks) - p - 1) =>
                  /\ blocks' = blocks
                  /\ tip' = tip
                  /\ utxoSet' = utxoSet]_vars

\* a fork of two or more blocks has reached exactly the length of the
\* active chain above its fork point
C8_Witness ==
    /\ InsertedInFork(last)
    /\ LET F == forkBlocks[last.key]
           p == RootIndex(blocks, F)
       IN  /\ p >= 0
           /\ Len(F) >= 2
           /\ Len(F) = Len(blocks) - p - 1

InActive(chain, hash) == \E i \in 1..Len(chain) : BlockHash(chain[i]) = hash

ForksHolding(forks, hash) ==
    {k \in DOMAIN forks : \E i \in 1..Len(forks[k]) : BlockHash(forks[k][i]) = hash}

\* a non-nil block is rejected as unconnected exactly when its predecessor
\* is the id of no active block and of no fork block
UnconnectedExactly ==
    last'.arg # << >> =>
        (last'.path = "unconnected" <=>
            /\ ~InActive(blocks, last'.arg[1].Header.PrevBlockHash)
            /\ ForksHolding(forkBlocks, last'.arg[1].Header.PrevBlockHash) = {})

\* C9 as stated: ... and a block whose predecessor is the id of a block held
\* in a fork is appended to such a fork
C9_AsStated ==
    [][/\ UnconnectedExactly
       /\ (last'.arg # << >> /\
             ForksHolding(forkBlocks, last'.arg[1].Header.PrevBlockHash) # {}) =>
               \E k \in ForksHolding(forkBlocks, last'.arg[1].Header.PrevBlockHash) :
                   /\ k \in DOMAIN forkBlocks'
                   /\ forkBlocks'[k] = Append(forkBlocks[k], last'.arg[1])]_vars

\* C9: a non-nil block is rejected as unconnected exactly when its
\* predecessor is the id of no active block and of no fork block; a block
\* whose predecessor is the id of no active block but of a block held in a
\* fork is appended to one fork that holds such a block, and every other
\* fork is left as it was
C9_Connection ==
    [][/\ UnconnectedExactly
       /\ (/\ last'.arg # << >>
           /\ ~InActive(blocks, last'.arg[1].Header.PrevBlockHash)
           /\ ForksHolding(forkBlocks, last'.arg[1].Header.PrevBlockHash) # {}) =>
               \E k \in ForksHolding(forkBlocks, last'.arg[1].Header.PrevBlockHash) :
                   /\ last'.err = Ok
                   /\ DOMAIN forkBlocks' = DOMAIN forkBlocks
                   /\ forkBlocks'[k] = Append(forkBlocks[k], last'.arg[1])
                   /\ \A o \in (DOMAIN forkBlocks) \ {k} : forkBlocks'[o] = forkBlocks[o]]_vars

\* a block has been appended to a fork behind a block that is not the
\* fork's last one
C9_Witness ==
    /\ last.path = "fork_extend"
    /\ LET F == forkBlocks[last.key]
       IN  /\ Len(F) >= 3
           /\ BlockHash(F[Len(F) - 1]) # last.arg[1].Header.PrevBlockHash

\* C10: the tip is the last element of the active chain, GetTip() is
\* GetBlock(Height()), and the tip is nil exactly when the chain is empty
C10_TipIsLast ==
    /\ tip = GetBlock(blocks, Height(blocks))
    /\ (tip = << >>) <=> (Len(blocks) = 0)
    /\ Len(blocks) > 0 => tip = <<blocks[Len(blocks)]>>

\* a reorganisation has just replaced the tip
C10_Witness ==
    /\ last.reorg
    /\ Len(blocks) >= 3
    /\ tip = <<last.arg[1]>>

\* ---------------------------------------------------------------- C11
\* the outputs of the active chain, by position: block, transaction, output
ChainOutputs(chain) ==
    UNION {UNION {{<<b, t, j>> : j \in 1..Len(chain[b].Transactions[t].Outputs)} :
                     t \in 1..Len(chain[b].Transactions)} :
              b \in 1..Len(chain)}

\* the outpoint that names the output at a position
OutPointOf(chain, p) ==
    OutPoint(TxHash(chain[p[1]].Transactions[p[2]]), p[3] - 1)

\* whether a later transaction of the chain has a non-coinbase input that
\* names the output at position p
SpentLater(chain, p) ==
    \E b \in 1..Len(chain) : \E t \in 1..Len(chain[b].Transactions) :
        /\ b > p[1] \/ (b = p[1] /\ t > p[2])
        /\ ~IsCoinbase(chain[b].Transactions[t])
        /\ \E i \in 1..Len(chain[b].Transactions[t].Inputs) :
              chain[b].Transactions[t].Inputs[i].PreviousOutput = OutPointOf(chain, p)

Unspent(chain) == {p \in ChainOutputs(chain) : ~SpentLater(chain, p)}

\* C11: the UTXO set holds exactly one entry for every output of the active
\* chain that no later active-chain input spends, and no other entry; so its
\* size is the number of unspent outputs (k+1 after a genesis block and k
\* blocks of one single-output coinbase each)
C11_OneEntryPerUnspentOutput ==
    /\ \A p \in Unspent(blocks) :
          <<OutPointOf(blocks, p).Hash, OutPointOf(blocks, p).Index>> \in DOMAIN utxoSet
    /\ Cardinality(DOMAIN utxoSet) = Cardinality(Unspent(blocks))

\* ---------------------------------------------------------------- C12
\* the UTXO set after the first j transactions of the block are processed
AfterTx(utxos, block, j) ==
    processBlockTransactions(utxos, [block EXCEPT !.Transactions = SubSeq(@, 1, j)])

\* the outpoints the inputs of a transaction name
InputKeys(tx) ==
    {<<tx.Inputs[i].PreviousOutput.Hash, tx.Inputs[i].PreviousOutput.Index>> :
        i \in 1..Len(tx.Inputs)}

\* C12: when a block is applied on the tip its transactions are processed
\* in block order, each one removing the outpoints of its inputs before
\* adding its own outputs: after transaction j the set is the set after
\* transaction j-1 without the outpoints spent by j, and then with the
\* outputs of j; a coinbase removes nothing; the outputs of j are present
\* when a later transaction of the block is processed
C12_BlockOrderRemoveThenAdd ==
    [][(last'.path = "tip" /\ last'.err = Ok) =>
          LET block == last'.arg[1]
              txs == block.Transactions
          IN  /\ utxoSet' = AfterTx(utxoSet, block, Len(txs))
              /\ \A j \in 1..Len(txs) :
                    LET before == AfterTx(utxoSet, block, j - 1)
                        after == AfterTx(utxoSet, block, j)
                    IN  /\ after = ReplayTx(before, txs[j])
                        /\ IsCoinbase(txs[j]) => DOMAIN before \subseteq DOMAIN after
                        /\ \A o \in 1..Len(txs[j].Outputs) :
                              /\ <<TxHash(txs[j]), o - 1>> \in DOMAIN after
                              /\ after[<<TxHash(txs[j]), o - 1>>].amount = txs[j].Outputs[o].Value
                        /\ ~IsCoinbase(txs[j]) =>
                              \A k \in InputKeys(txs[j]) :
                                  k \in DOMAIN after =>
                                      \E o \in 1..Len(txs[j].Outputs) :
                                          k = <<TxHash(txs[j]), o - 1>>]_vars

\* a block accepted on the tip whose second transaction spends the output
\* its first transaction, a coinbase, has just created
C12_Witness ==
    /\ last.path = "tip"
    /\ last.err = Ok
    /\ Len(last.arg[1].Transactions) >= 2
    /\ IsCoinbase(last.arg[1].Transactions[1])
    /\ ~IsCoinbase(last.arg[1].Transactions[2])
    /\ <<TxHash(last.arg[1].Transactions[1]), 0>> \in InputKeys(last.arg[1].Transactions[2])
    /\ utxoSet[<<ZeroHash, 0>>].amount = last.arg[1].Transactions[2].Outputs[1].Value

\* ---------------------------------------------------------------- C13
\* C13: a call with a block whose previous hash is the id of the tip and
\* which passes the block checks succeeds, appends the block at index
\* Len(blocks), makes it the tip, raises the height by one, keeps every
\* earlier entry of the active chain and leaves the forks map unchanged
C13_TipExtension ==
    [][\A b \in Blocks :
          (/\ last'.arg = <<b>>
           /\ tip # << >>
           /\ b.Header.PrevBlockHash = BlockHash(tip[1])
           /\ PassesBlockChecks(b)) =>
              /\ last'.err = Ok
              /\ Len(blocks') = Len(blocks) + 1
              /\ blocks'[Len(blocks) + 1] = b
              /\ tip' = <<b>>
              /\ Height(blocks') = Height(blocks) + 1
              /\ \A i \in 1..Len(blocks) : blocks'[i] = blocks[i]
              /\ forkBlocks' = forkBlocks]_vars

\* the tip has been extended while a fork is tracked
C13_Witness ==
    /\ last.path = "tip"
    /\ last.err = Ok
    /\ Len(blocks) >= 3
    /\ tip = last.arg
    /\ DOMAIN forkBlocks # {}

\* ---------------------------------------------------------------- C31
\* C31: a call with a block that is held, since an earlier call accepted
\* it, in the active chain above index 0 or in a fork leaves the active
\* chain, the tip and the UTXO set as they were
C31_ResubmitChangesNothing ==
    [][(last'.arg # << >> /\ last'.arg[1] \in HeldBlocks) =>
          /\ blocks' = blocks
          /\ tip' = tip
          /\ utxoSet' = utxoSet]_vars

\* ---------------------------------------------------------------- C32
\* C32: the height never decreases across a call: a rejected block and an
\* accepted fork block without a reorganisation leave it unchanged, a tip
\* extension raises it by exactly 1, and every reorganisation (every change
\* of the active chain that is not a tip extension) strictly raises it
C32_HeightNeverDecreases ==
    [][/\ Height(blocks') >= Height(blocks)
       /\ last'.err # Ok => Height(blocks') = Height(blocks)
       /\ (InsertedInFork(last') /\ ~last'.reorg) => Height(blocks') = Height(blocks)
       /\ (last'.path = "tip" /\ last'.err = Ok) => Height(blocks') = Height(blocks) + 1
       /\ last'.reorg => Height(blocks') > Height(blocks)
       /\ (blocks' # blocks /\ last'.path # "tip") =>
              (last'.reorg /\ Height(blocks') > Height(blocks))]_vars

\* a fork of two or more blocks has just been adopted on a chain of height 3
\* or more
C32_Witness ==
    /\ last.reorg
    /\ last.path = "fork_extend"
    /\ Len(forkBlocks[last.key]) >= 2
    /\ Height(blocks) >= 3

C35_OneForkPerParent ==
    [][/\ \A b \in Blocks :
             (/\ last'.arg = <<b>>
              /\ PassesBlockChecks(b)
              /\ tip # << >>
              /\ b.Header.PrevBlockHash # BlockHash(tip[1])
              /\ InActive(blocks, b.Header.PrevBlockHash)) =>
                  LET k == ForkKey(b.Header.PrevBlockHash)
                  IN  /\ last'.err = Ok
                      /\ DOMAIN forkBlocks' = (DOMAIN forkBlocks) \cup {k}
                      /\ forkBlocks'[k] = <<b>>
                      /\ \A o \in (DOMAIN forkBlocks) \ {k} : forkBlocks'[o] = forkBlocks[o]
       /\ DOMAIN forkBlocks \subseteq DOMAIN forkBlocks'
       /\ \A k \in DOMAIN forkBlocks' :
             k = ForkKey(forkBlocks'[k][1].Header.PrevBlockHash)]_vars

\* the fork on the genesis block that was adopted with a block taken twice
\* has just been replaced by a one-block fork under the same key, while a
\* fork under another key is tracked
C35_Witness ==
    /\ last.path = "fork_start"
    /\ last.err = Ok
    /\ last.arg = <<A1>>
    /\ blocks = <<Genesis, C1, C2, C2>>
    /\ forkBlocks[last.key] = <<A1>>
    /\ \E o \in DOMAIN forkBlocks : o # last.key

\* ---------------------------------------------------------------- C34
\* a longer branch on C2, submitted to a chain that starts at the genesis
\* block; specification BranchSpec
D3 == NewBlock(BlockHash(C2), NoBits, 50000, <<Coinbase(61)>>)

D4 == NewBlock(BlockHash(D3), NoBits, 50000, <<Coinbase(62)>>)

D5 == NewBlock(BlockHash(D4), NoBits, 50000, <<Coinbase(63)>>)

BranchBlocks == {A1, B2, B3, C1, C2, D3, D4, D5}

BranchInit ==
    LET bc == NewBlockChain(<<Genesis>>)
    IN  /\ blocks = bc.blocks
        /\ utxoSet = bc.utxoSet
        /\ tip = bc.tip
        /\ forkBlocks = bc.forkBlocks
        /\ genesis = <<Genesis>>
        /\ last = [arg |-> <<Genesis>>, err |-> Ok, path |-> "new", reorg |-> FALSE,
                   key |-> NoKey]
        /\ calls = 0
        /\ PeerUnused
        /\ WireUnused
        /\ ScriptUnused
        /\ CalcUnused

AddBranchBlock ==
    /\ calls < MaxCalls
    /\ \E b \in BranchBlocks : Call(<<b>>)

BranchNext == AddBranchBlock

BranchSpec == BranchInit /\ [][BranchNext]_vars

\* the blocks a reorganisation removes from the active chain: those above
\* the part of the old chain that the new chain keeps below the fork F
DisplacedBy(old, new, F) ==
    {old[i] : i \in (Len(new) - Len(F) + 1)..Len(old)}

\* C34: in the state a reorganisation leaves, AddBlock rejects as
\* unconnected, without changing anything, every block whose predecessor is
\* the id of a displaced block that no tracked fork holds
C34_DisplacedNotRetained ==
    [][last'.reorg =>
          LET after == [blocks |-> blocks', utxoSet |-> utxoSet', tip |-> tip',
                        forkBlocks |-> forkBlocks']
              gone == DisplacedBy(blocks, blocks', forkBlocks'[last'.key])
          IN  \A x \in BranchBlocks :
                  (\E d \in gone :
                      /\ x.Header.PrevBlockHash = BlockHash(d)
                      /\ ForksHolding(forkBlocks', BlockHash(d)) = {}) =>
                      \A out \in AddBlockOutcomes(after, <<x>>) :
                          /\ out.path = "unconnected"
                          /\ out.err # Ok
                          /\ out.bc = after]_vars

\* ================================================================ the peer
MaxConns == 2

MaxCloses == 3

\* the addresses peers are created with
Addresses == {"127.0.0.1:8333", "invalid:address", "127.0.0.1:0"}

\* the protocol versions offered to PerformHandshake
Versions == {70000, 70001, 70015}

\* conn is nil (<< >>) or names a connection by its index in conns
NewPeer(address) == [address |-> address, conn |-> << >>]

\* net.DialTimeout: whether the dial can succeed and whether it can fail; an
\* address that does not resolve never connects
DialOutcomes(address) ==
    IF address = "invalid:address" THEN {FALSE} ELSE {TRUE, FALSE}

\* a connection as net.DialTimeout returns it
NewConn == [closed |-> FALSE, closeCalls |-> 0]

\* conn.Close() of the TCP connection: the first call closes it, a call on
\* a closed connection returns an error
ConnClose(c) ==
    IF c.closed
    THEN [conn |-> [c EXCEPT !.closeCalls = @ + 1],
          err |-> "use of closed network connection"]
    ELSE [conn |-> [closed |-> TRUE, closeCalls |-> c.closeCalls + 1], err |-> Ok]

\* Peer.Connect, given whether the dial succeeded
PeerConnect(p, cs, dialed) ==
    IF ~dialed
    THEN [peer |-> p, conns |-> cs, err |-> "failed to connect"]
    ELSE [peer |-> [p EXCEPT !.conn = <<Len(cs) + 1>>],
          conns |-> Append(cs, NewConn),
          err |-> Ok]

\* Peer.PerformHandshake
PeerPerformHandshake(p, version) ==
    IF version < 70001 THEN FALSE
    ELSE IF p.address = "127.0.0.1:8333" THEN FALSE
    ELSE TRUE

\* Peer.Close
PeerClose(p, cs) ==
    IF p.conn # << >>
    THEN LET r == ConnClose(cs[p.conn[1]])
         IN  [peer |-> p, conns |-> [cs EXCEPT ![p.conn[1]] = r.conn], err |-> r.err]
    ELSE [peer |-> p, conns |-> cs, err |-> Ok]

PeerInit ==
    /\ \E address \in Addresses : peer = NewPeer(address)
    /\ conns = << >>
    /\ closes = 0
    /\ peerLast = [op |-> "new", err |-> Ok, version |-> 0, ok |-> TRUE]
    /\ ChainUnused
    /\ WireUnused
    /\ ScriptUnused
    /\ CalcUnused

Connect ==
    /\ Len(conns) < MaxConns
    /\ \E dialed \in DialOutcomes(peer.address) :
          LET out == PeerConnect(peer, conns, dialed)
          IN  /\ peer' = out.peer
              /\ conns' = out.conns
              /\ closes' = IF out.err = Ok THEN 0 ELSE closes
              /\ peerLast' = [op |-> "connect", err |-> out.err, version |-> 0,
                              ok |-> out.err = Ok]
    /\ UNCHANGED <<chainVars, wireVars, scriptVars, calcVars>>

PerformHandshake ==
    /\ \E version \in Versions :
          peerLast' = [op |-> "handshake", err |-> Ok, version |-> version,
                       ok |-> PeerPerformHandshake(peer, version)]
    /\ UNCHANGED <<peer, conns, closes, chainVars, wireVars, scriptVars, calcVars>>

Close ==
    /\ closes < MaxCloses
    /\ LET out == PeerClose(peer, conns)
       IN  /\ peer' = out.peer
           /\ conns' = out.conns
           /\ closes' = closes + 1
           /\ peerLast' = [op |-> "close", err |-> out.err, version |-> 0,
                           ok |-> out.err = Ok]
    /\ UNCHANGED <<chainVars, wireVars, scriptVars, calcVars>>

PeerNext == Connect \/ PerformHandshake \/ Close

PeerSpec == PeerInit /\ [][PeerNext]_vars

\* ---------------------------------------------------------------- C14
\* C14: a Close call on a peer that has been closed before (never
\* connected, after a failed connection attempt, or connected and closed
\* once) returns no error and does not act on any connection
C14_DoubleCloseNoOp ==
    [][(closes' = closes + 1 /\ closes >= 1) =>
          (peerLast'.err = Ok /\ conns' = conns)]_vars

\* ==================================================== the message envelope
\* A byte slice is a sequence of runs <<byte, count>>, each count at least
\* 1 and no two adjacent runs of the same byte, so that a payload of 32 MiB
\* is one run.  A uint32 is written as its four bytes, most significant
\* first.  A pointer to a message and a byte slice that may be nil are
\* sequences of length 0 (nil) or 1.
MaxSmall == 3

MaxOver == 1

HeaderSize == 24

MaxPayload == 32 * 1024 * 1024

\* 0xd9b4bef9
MagicMainnet == <<217, 180, 190, 249>>

\* make([]byte, n) filled with b
Run(b, n) == IF n <= 0 THEN << >> ELSE << <<b, n>> >>

\* append(x, y...)
RCat(x, y) ==
    IF x = << >> THEN y
    ELSE IF y = << >> THEN x
    ELSE IF x[Len(x)][1] = y[1][1]
         THEN SubSeq(x, 1, Len(x) - 1) \o << <<y[1][1], x[Len(x)][2] + y[1][2]>> >> \o Tail(y)
         ELSE x \o y

\* the byte slice of a sequence of bytes
RECURSIVE Lit(_)
Lit(bytes) == IF bytes = << >> THEN << >> ELSE RCat(Run(Head(bytes), 1), Lit(Tail(bytes)))

\* len(x)
RECURSIVE RLen(_)
RLen(x) == IF x = << >> THEN 0 ELSE x[1][2] + RLen(Tail(x))

\* x[i], i counted from 0
RECURSIVE RAt(_, _)
RAt(x, i) == IF i < x[1][2] THEN x[1][1] ELSE RAt(Tail(x), i - x[1][2])

\* x[n:]
RECURSIVE RDrop(_, _)
RDrop(x, n) ==
    IF n <= 0 \/ x = << >> THEN x
    ELSE IF n >= x[1][2] THEN RDrop(Tail(x), n - x[1][2])
    ELSE << <<x[1][1], x[1][2] - n>> >> \o Tail(x)

\* x[:n]
RECURSIVE RTake(_, _)
RTake(x, n) ==
    IF n <= 0 \/ x = << >> THEN << >>
    ELSE IF n >= x[1][2] THEN <<x[1]>> \o RTake(Tail(x), n - x[1][2])
    ELSE << <<x[1][1], n>> >>

\* x[lo:hi]
RSlice(x, lo, hi) == RTake(RDrop(x, lo), hi - lo)

\* x[lo:hi] as a sequence of bytes
Bytes(x, lo, hi) == [i \in 1..(hi - lo) |-> RAt(x, lo + i - 1)]

\* uint32(n)
ToUint32(n) ==
    <<(n \div 16777216) % 256, (n \div 65536) % 256, (n \div 256) % 256, n % 256>>

\* binary.LittleEndian.PutUint32
PutUint32(v) == <<v[4], v[3], v[2], v[1]>>

\* binary.LittleEndian.Uint32
Uint32(b) == <<b[4], b[3], b[2], b[1]>>

\* a > b on uint32
Uint32Greater(a, b) ==
    \E i \in 1..4 : a[i] > b[i] /\ \A j \in 1..(i - 1) : a[j] = b[j]

\* int(v)
Uint32ToInt(v) == ((v[1] * 256 + v[2]) * 256 + v[3]) * 256 + v[4]

\* the double SHA-256 of the data is modelled as 32 bytes computed from a
\* digest of the content
RECURSIVE Digest(_, _)
Digest(x, h) ==
    IF x = << >> THEN h
    ELSE Digest(Tail(x), (h * 31 + x[1][1] * 17 + (x[1][2] % 65521)) % 65521)

calculateChecksum(data) ==
    LET d == Digest(data, 7) IN [i \in 1..32 |-> (d * i + i * i) % 256]

NewP2PMessage(command, payload) == [command |-> command, payload |-> payload]

\* the command copied as a C string: at most 11 bytes and a final NUL
PadCommand_Terminated(command) ==
    [i \in 1..12 |-> IF i <= Len(command) /\ i <= 11 THEN command[i] ELSE 0]

\* copy(msg[4:16], m.command) into zeroed bytes
PadCommand(command) ==
    [i \in 1..12 |-> IF i <= Len(command) THEN command[i] ELSE 0]

\* P2PMessage.Serialize; the result is nil or the envelope
Serialize(m) ==
    LET payloadLen == RLen(m.payload)
    IN  IF payloadLen < 0 \/ payloadLen \div 65536 > 65535
        THEN << >>
        ELSE <<RCat(Lit(PutUint32(MagicMainnet)),
                RCat(Lit(PadCommand(m.command)),
                RCat(Lit(PutUint32(ToUint32(payloadLen))),
                RCat(Lit(SubSeq(calculateChecksum(m.payload), 1, 4)),
                     m.payload))))>>

\* the command up to its first NUL byte
TrimCommand(command) ==
    LET nuls == {i \in 1..Len(command) : command[i] = 0}
    IN  IF nuls = {} THEN command
        ELSE SubSeq(command, 1, (CHOOSE i \in nuls : \A j \in nuls : i <= j) - 1)

\* DeserializeP2PMessage with the magic compared after the payload length
DeserializeP2PMessage_MagicLate(data) ==
    IF RLen(data) < HeaderSize
    THEN [msg |-> << >>, err |-> "message too short"]
    ELSE LET payloadLen == Uint32(Bytes(data, 16, 20))
         IN  IF Uint32Greater(payloadLen, ToUint32(MaxPayload))
             THEN [msg |-> << >>, err |-> "payload too large"]
             ELSE IF Uint32(Bytes(data, 0, 4)) # MagicMainnet
             THEN [msg |-> << >>, err |-> "invalid magic bytes"]
             ELSE IF RLen(data) < HeaderSize + Uint32ToInt(payloadLen)
             THEN [msg |-> << >>, err |-> "incomplete message"]
             ELSE LET payload == RSlice(data, 24, 24 + Uint32ToInt(payloadLen))
                  IN  IF SubSeq(calculateChecksum(payload), 1, 4) # Bytes(data, 20, 24)
                      THEN [msg |-> << >>, err |-> "invalid checksum"]
                      ELSE [msg |-> <<NewP2PMessage(TrimCommand(Bytes(data, 4, 16)),
                                                    payload)>>,
                            err |-> Ok]

DeserializeP2PMessage(data) ==
    IF RLen(data) < HeaderSize
    THEN [msg |-> << >>, err |-> "message too short"]
    ELSE IF Uint32(Bytes(data, 0, 4)) # MagicMainnet
    THEN [msg |-> << >>, err |-> "invalid magic bytes"]
    ELSE LET command == TrimCommand(Bytes(data, 4, 16))
             payloadLen == Uint32(Bytes(data, 16, 20))
         IN  IF Uint32Greater(payloadLen, ToUint32(MaxPayload))
             THEN [msg |-> << >>, err |-> "payload too large"]
             ELSE LET totalLen == HeaderSize + Uint32ToInt(payloadLen)
                  IN  IF RLen(data) < totalLen
                      THEN [msg |-> << >>, err |-> "incomplete message"]
                      ELSE LET payload == RSlice(data, 24, 24 + Uint32ToInt(payloadLen))
                               expectedChecksum == calculateChecksum(payload)
                               actualChecksum == Bytes(data, 20, 24)
                           IN  IF \E i \in 1..4 : expectedChecksum[i] # actualChecksum[i]
                               THEN [msg |-> << >>, err |-> "invalid checksum"]
                               ELSE [msg |-> <<NewP2PMessage(command, payload)>>,
                                     err |-> Ok]

\* ------------------------------------------------- the messages and buffers
\* "tx", "version", a command of 13 bytes, one of 12 bytes, the empty
\* command, a command with a NUL byte and one with a byte above 127
Commands ==
    {<<116, 120>>, <<118, 101, 114, 115, 105, 111, 110>>,
     <<103, 101, 116, 98, 108, 111, 99, 107, 116, 120, 110, 120, 120>>,
     <<103, 101, 116, 98, 108, 111, 99, 107, 116, 120, 110, 120>>,
     << >>, <<116, 0, 120>>, <<200, 120>>}

PayloadLens == (0..MaxSmall) \cup ((MaxPayload - 1)..(MaxPayload + MaxOver))

Payloads == {Run(f, n) : f \in {0, 7}, n \in PayloadLens} \cup {Lit(<<1, 2, 3>>)}

Messages == {NewP2PMessage(c, p) : c \in Commands, p \in Payloads}

\* a buffer made of the five parts of an envelope
Frame(magic, command, length, checksum, payload) ==
    RCat(Lit(magic), RCat(Lit(PadCommand(command)), RCat(Lit(length),
         RCat(Lit(checksum), payload))))

\* the checksum bytes put in a test buffer: of the whole body, of the
\* declared part of the body, or wrong
FrameChecksum(mode, declared, body) ==
    IF mode = "body" THEN SubSeq(calculateChecksum(body), 1, 4)
    ELSE IF mode = "declared" THEN SubSeq(calculateChecksum(RTake(body, declared)), 1, 4)
    ELSE <<0, 0, 0, 1>>

Frames ==
    {Frame(magic, <<116, 120>>, PutUint32(ToUint32(declared)),
           FrameChecksum(mode, declared, body), body) :
        magic \in {PutUint32(MagicMainnet), <<0, 0, 0, 0>>},
        declared \in PayloadLens,
        mode \in {"body", "declared", "bad"},
        body \in Payloads}

Buffers ==
    Frames \cup
    {<< >>, Lit(<<1, 2>>), Run(0, 23), RTake(Serialize(NewP2PMessage(<<116, 120>>, << >>))[1], 23),
     Frame(PutUint32(MagicMainnet), <<116, 120>>, <<255, 255, 255, 255>>,
           <<0, 0, 0, 1>>, Lit(<<1, 2, 3>>)),
     Frame(<<0, 0, 0, 0>>, <<116, 120>>, <<255, 255, 255, 255>>,
           <<0, 0, 0, 1>>, << >>)}

WireInit ==
    /\ \/ \E m \in Messages :
             wire = [op |-> "message", msg |-> <<m>>, data |-> << >>, err |-> Ok]
       \/ \E b \in Buffers :
             wire = [op |-> "buffer", msg |-> << >>, data |-> <<b>>, err |-> Ok]
    /\ ChainUnused
    /\ PeerUnused
    /\ ScriptUnused
    /\ CalcUnused

\* m.Serialize() on a given message or on a parsed one
SerializeCall ==
    /\ wire.op \in {"message", "deserialize"}
    /\ wire.msg # << >>
    /\ wire' = [op |-> "serialize", msg |-> wire.msg, data |-> Serialize(wire.msg[1]),
                err |-> Ok]
    /\ UNCHANGED <<chainVars, peerVars, scriptVars, calcVars>>

\* DeserializeP2PMessage(data) on a given buffer or on a serialised message
DeserializeCall ==
    /\ wire.op \in {"buffer", "serialize"}
    /\ wire.data # << >>
    /\ LET out == DeserializeP2PMessage(wire.data[1])
       IN  wire' = [op |-> "deserialize", msg |-> out.msg, data |-> wire.data,
                    err |-> out.err]
    /\ UNCHANGED <<chainVars, peerVars, scriptVars, calcVars>>

WireNext == SerializeCall \/ DeserializeCall

WireSpec == WireInit /\ [][WireNext]_vars

\* ---------------------------------------------------------------- C15
\* C15: serialising a message whose payload is longer than 32 MiB is
\* rejected: no envelope is produced
C15_OversizeRejected ==
    (wire.op = "serialize" /\ RLen(wire.msg[1].payload) > 33554432) => wire.data = << >>

\* ---------------------------------------------------------------- C16
\* what parsing reports, read from the bytes of the buffer: the first of
\* the five faults, in order, or success
ParseOutcome(data) ==
    IF RLen(data) < 24 THEN "message too short"
    ELSE LET b(i) == RAt(data, i)
             declared == b(16) + 256 * b(17) + 65536 * b(18) + 16777216 * b(19)
         IN  IF <<b(0), b(1), b(2), b(3)>> # <<249, 190, 180, 217>>
             THEN "invalid magic bytes"
             ELSE IF b(19) > 2 \/ (b(19) = 2 /\ b(16) + b(17) + b(18) > 0)
             THEN "payload too large"
             ELSE IF RLen(data) - 24 < declared
             THEN "incomplete message"
             ELSE IF Bytes(data, 20, 24) #
                       SubSeq(calculateChecksum(RSlice(data, 24, 24 + declared)), 1, 4)
             THEN "invalid checksum"
             ELSE Ok

\* C16: parsing fails exactly when the buffer has fewer than 24 bytes, or
\* the magic is not the mainnet magic, or the declared length exceeds
\* 32 MiB, or the buffer is shorter than 24 plus the declared length, or the
\* checksum differs; the error is the first of these that holds, and in
\* every other case a message is returned
C16_FirstFaultReported ==
    wire.op = "deserialize" =>
        /\ wire.err = ParseOutcome(wire.data[1])
        /\ (wire.err = Ok) <=> (wire.msg # << >>)

\* a buffer with the right magic whose declared length is too large, which
\* is also shorter than declared and has a wrong checksum, was parsed
C16_Witness ==
    /\ wire.op = "deserialize"
    /\ wire.err = "payload too large"
    /\ RLen(wire.data[1]) = 24
    /\ Bytes(wire.data[1], 20, 24) = <<0, 0, 0, 1>>

\* ---------------------------------------------------------------- C39
\* the messages the round trip is claimed for
RoundTrips(m) ==
    /\ Len(m.command) <= 12
    /\ \A i \in 1..Len(m.command) : m.command[i] # 0
    /\ RLen(m.payload) <= 33554432

\* C39: a message with a command of at most 12 bytes, none of them NUL, and
\* a payload of at most 32 MiB is serialised to an envelope, and parsing
\* that envelope succeeds and returns a message with the same command and
\* the same payload
C39_EnvelopeRoundTrip ==
    [][/\ (wire'.op = "serialize" /\ RoundTrips(wire'.msg[1])) =>
              /\ wire'.data # << >>
              /\ RLen(wire'.data[1]) = 24 + RLen(wire'.msg[1].payload)
       /\ (wire.op = "serialize" /\ wire'.op = "deserialize" /\ RoundTrips(wire.msg[1])) =>
              /\ wire'.err = Ok
              /\ wire'.msg # << >>
              /\ wire'.msg[1].command = wire.msg[1].command
              /\ wire'.msg[1].payload = wire.msg[1].payload]_vars

\* a message with a command of exactly 12 bytes and a payload of exactly
\* 32 MiB has come back from its envelope
C39_Witness ==
    /\ wire.op = "deserialize"
    /\ wire.err = Ok
    /\ Len(wire.msg[1].command) = 12
    /\ RLen(wire.msg[1].payload) = 33554432
    /\ wire.data = Serialize(wire.msg[1])

\* ======================================================= the script engine
\* A stack item and a script are sequences of bytes; the top of the stack is
\* its last element.  An int64 is written as its eight bytes in two's
\* complement, least significant first, so that arithmetic wraps as the
\* machine's does.
MaxScriptLen == 3

MaxSets == 1

OP_0 == 0

OP_1 == 81

OP_16 == 96

OP_NOP == 97

OP_VERIFY == 105

OP_DROP == 117

OP_DUP == 118

OP_SWAP == 124

OP_EQUAL == 135

OP_EQUALVERIFY == 136

OP_ADD == 147

OP_SUB == 148

OP_HASH160 == 169

OP_CHECKSIG == 172

ScriptFlagsNone == 0

ScriptVerifyP2SH == 1

ScriptVerifyCleanStack == 256

ZeroHash160 == [i \in 1..20 |-> 0]

\* int64(0)
Zero64 == [i \in 1..8 |-> 0]

\* a + b on int64, from byte i on with the carry c
RECURSIVE AddFrom(_, _, _, _)
AddFrom(a, b, i, c) ==
    IF i > 8 THEN << >>
    ELSE <<(a[i] + b[i] + c) % 256>> \o AddFrom(a, b, i + 1, (a[i] + b[i] + c) \div 256)

Add64(a, b) == AddFrom(a, b, 1, 0)

\* -a on int64
Neg64(a) == Add64([i \in 1..8 |-> 255 - a[i]], [i \in 1..8 |-> IF i = 1 THEN 1 ELSE 0])

\* a - b on int64
Sub64(a, b) == Add64(a, Neg64(b))

\* a < 0 on int64
Negative64(a) == a[8] >= 128

\* ScriptEngine.bytesToNum
bytesToNum(data) ==
    IF Len(data) = 0 THEN Zero64
    ELSE LET signed == Len(data) <= 8 /\ data[Len(data)] >= 128
             result == [i \in 1..8 |->
                          IF i > Len(data) THEN 0
                          ELSE IF i = Len(data) /\ signed THEN data[i] % 128
                          ELSE data[i]]
         IN  IF signed THEN Neg64(result) ELSE result

\* ScriptEngine.numToBytes
numToBytes(num) ==
    IF num = Zero64 THEN << >>
    ELSE LET negative == Negative64(num)
             abs == IF negative THEN Neg64(num) ELSE num
             \* the loop runs while the number is positive
             used == IF Negative64(abs) THEN {} ELSE {i \in 1..8 : abs[i] # 0}
             n == IF used = {} THEN 0 ELSE CHOOSE i \in used : \A j \in used : j <= i
             result == SubSeq(abs, 1, n)
         IN  IF negative
             THEN IF n > 0 /\ result[n] >= 128 THEN Append(result, 128)
                  ELSE IF n > 0 THEN [result EXCEPT ![n] = @ + 128]
                  ELSE result
             ELSE IF n > 0 /\ result[n] >= 128 THEN Append(result, 0)
             ELSE result

\* "Hello"
Hello == <<72, 101, 108, 108, 111>>

\* hash160: the fixed hash of "Hello", the zero hash for everything else
hash160(data) ==
    IF data = Hello
    THEN <<182, 169, 200, 194, 48, 114, 43, 124, 116, 131,
           49, 168, 180, 80, 240, 85, 102, 220, 125, 15>>
    ELSE ZeroHash160

bytesEqual(a, b) ==
    /\ Len(a) = Len(b)
    /\ \A i \in 1..Len(a) : a[i] = b[i]

\* ScriptEngine.isTrue
isTrue(data) ==
    IF Len(data) = 0 THEN FALSE
    ELSE IF \E i \in 1..(Len(data) - 1) : data[i] # 0 THEN TRUE
    ELSE data[Len(data)] # 0 /\ data[Len(data)] # 128

\* ScriptEngine.verifySignature
verifySignature(signatureBytes, pubKeyBytes) ==
    IF Len(signatureBytes) = 0 \/ Len(pubKeyBytes) = 0 THEN FALSE
    ELSE IF Len(signatureBytes) < 6 \/ signatureBytes[1] # 48 THEN FALSE
    ELSE IF Len(pubKeyBytes) # 33 /\ Len(pubKeyBytes) # 65 THEN FALSE
    ELSE IF Len(pubKeyBytes) = 33 /\ pubKeyBytes[1] # 2 /\ pubKeyBytes[1] # 3 THEN FALSE
    ELSE IF Len(pubKeyBytes) = 65 /\ pubKeyBytes[1] # 4 THEN FALSE
    ELSE IF /\ Len(signatureBytes) >= 8
            /\ Len(signatureBytes) >= 71
            /\ \A i \in 4..35 : signatureBytes[i + 1] = 0
            /\ \A i \in 38..69 : signatureBytes[i + 1] = 0
         THEN FALSE
    ELSE TRUE

NewScriptEngine(script, flags) ==
    [stack |-> << >>, altStack |-> << >>, script |-> script, pc |-> 0, flags |-> flags]

SetScript(se, script) == [se EXCEPT !.script = script, !.pc = 0]

\* se.stack = append(se.stack, item)
Push(se, item) == [se |-> [se EXCEPT !.stack = Append(@, item)], err |-> Ok]

\* se.stack[:len(se.stack)-n]
Pop(stack, n) == SubSeq(stack, 1, Len(stack) - n)

Fail(se, err) == [se |-> se, err |-> err]

\* case OP_DUP
opDup(se) ==
    IF Len(se.stack) < 1 THEN Fail(se, "OP_DUP: insufficient stack items")
    ELSE Push(se, se.stack[Len(se.stack)])

\* case OP_DROP
opDrop(se) ==
    IF Len(se.stack) < 1 THEN Fail(se, "OP_DROP: insufficient stack items")
    ELSE [se |-> [se EXCEPT !.stack = Pop(@, 1)], err |-> Ok]

\* case OP_SWAP
opSwap(se) ==
    IF Len(se.stack) < 2 THEN Fail(se, "OP_SWAP: insufficient stack items")
    ELSE LET n == Len(se.stack)
         IN  [se |-> [se EXCEPT !.stack = [@ EXCEPT ![n] = se.stack[n - 1],
                                                    ![n - 1] = se.stack[n]]],
              err |-> Ok]

\* OP_ADD that pops what is there before it counts the items
opAdd_PopFirst(se) ==
    IF Len(se.stack) < 2
    THEN Fail([se EXCEPT !.stack = << >>], "OP_ADD: insufficient stack items")
    ELSE LET b == se.stack[Len(se.stack)]
             a == se.stack[Len(se.stack) - 1]
         IN  Push([se EXCEPT !.stack = Pop(@, 2)],
                  numToBytes(Add64(bytesToNum(a), bytesToNum(b))))

\* case OP_ADD
opAdd(se) ==
    IF Len(se.stack) < 2 THEN Fail(se, "OP_ADD: insufficient stack items")
    ELSE LET b == se.stack[Len(se.stack)]
             a == se.stack[Len(se.stack) - 1]
         IN  Push([se EXCEPT !.stack = Pop(@, 2)],
                  numToBytes(Add64(bytesToNum(a), bytesToNum(b))))

\* case OP_SUB
opSub(se) ==
    IF Len(se.stack) < 2 THEN Fail(se, "OP_SUB: insufficient stack items")
    ELSE LET b == se.stack[Len(se.stack)]
             a == se.stack[Len(se.stack) - 1]
         IN  Push([se EXCEPT !.stack = Pop(@, 2)],
                  numToBytes(Sub64(bytesToNum(a), bytesToNum(b))))

\* case OP_EQUAL
opEqual(se) ==
    IF Len(se.stack) < 2 THEN Fail(se, "OP_EQUAL: insufficient stack items")
    ELSE LET a == se.stack[Len(se.stack) - 1]
             b == se.stack[Len(se.stack)]
         IN  Push([se EXCEPT !.stack = Pop(@, 2)],
                  IF bytesEqual(a, b) THEN <<1>> ELSE <<0>>)

\* case OP_VERIFY
opVerify(se) ==
    IF Len(se.stack) < 1 THEN Fail(se, "OP_VERIFY: insufficient stack items")
    ELSE LET top == se.stack[Len(se.stack)]
             popped == [se EXCEPT !.stack = Pop(@, 1)]
         IN  IF ~isTrue(top) THEN Fail(popped, "OP_VERIFY: failed")
             ELSE [se |-> popped, err |-> Ok]

\* case OP_EQUALVERIFY
opEqualVerify(se) ==
    LET r == opEqual(se)
    IN  IF r.err # Ok THEN r ELSE opVerify(r.se)

\* case OP_HASH160
opHash160(se) ==
    IF Len(se.stack) < 1 THEN Fail(se, "OP_HASH160: insufficient stack items")
    ELSE Push([se EXCEPT !.stack = Pop(@, 1)], hash160(se.stack[Len(se.stack)]))

\* case OP_CHECKSIG
opCheckSig(se) ==
    IF Len(se.stack) < 2
    THEN Fail(se, "OP_CHECKSIG: insufficient stack items (need signature and pubkey)")
    ELSE LET pubKeyBytes == se.stack[Len(se.stack)]
             signatureBytes == se.stack[Len(se.stack) - 1]
             valid == verifySignature(signatureBytes, pubKeyBytes)
         IN  Push([se EXCEPT !.stack = Pop(@, 2)], IF valid THEN <<1>> ELSE <<0>>)

\* a direct push that refuses data reaching the end of the script
opPush_EndExcluded(se, n) ==
    IF se.pc + n >= Len(se.script) THEN Fail(se, "push operation exceeds script bounds")
    ELSE Push([se EXCEPT !.pc = @ + n], SubSeq(se.script, se.pc + 1, se.pc + n))

\* a direct push that does not look at the end of the script
opPush_Unchecked(se, n) ==
    Push([se EXCEPT !.pc = @ + n],
         [i \in 1..n |-> IF se.pc + i <= Len(se.script) THEN se.script[se.pc + i] ELSE 0])

\* default: the direct push of n bytes
opPush(se, n) ==
    IF se.pc + n > Len(se.script) THEN Fail(se, "push operation exceeds script bounds")
    ELSE Push([se EXCEPT !.pc = @ + n], SubSeq(se.script, se.pc + 1, se.pc + n))

\* ScriptEngine.executeOpcode; se.pc is already past the opcode
executeOpcode(se, opcode) ==
    IF opcode = OP_0 THEN Push(se, << >>)
    ELSE IF opcode >= OP_1 /\ opcode <= OP_16 THEN Push(se, <<opcode - OP_1 + 1>>)
    ELSE IF opcode = OP_DUP THEN opDup(se)
    ELSE IF opcode = OP_DROP THEN opDrop(se)
    ELSE IF opcode = OP_SWAP THEN opSwap(se)
    ELSE IF opcode = OP_ADD THEN opAdd(se)
    ELSE IF opcode = OP_SUB THEN opSub(se)
    ELSE IF opcode = OP_EQUAL THEN opEqual(se)
    ELSE IF opcode = OP_EQUALVERIFY THEN opEqualVerify(se)
    ELSE IF opcode = OP_VERIFY THEN opVerify(se)
    ELSE IF opcode = OP_HASH160 THEN opHash160(se)
    ELSE IF opcode = OP_CHECKSIG THEN opCheckSig(se)
    ELSE IF opcode >= 1 /\ opcode <= 75 THEN opPush(se, opcode)
    ELSE Fail(se, "unimplemented opcode")

\* the loop of Execute; steps records, for each opcode run, the opcode, its
\* position, the stack before and after it, the program counter after it
\* and its error
RECURSIVE ExecuteLoop(_, _)
ExecuteLoop(se, steps) ==
    IF se.pc < Len(se.script)
    THEN LET opcode == se.script[se.pc + 1]
             r == executeOpcode([se EXCEPT !.pc = @ + 1], opcode)
             step == [opcode |-> opcode, at |-> se.pc, before |-> se.stack,
                      after |-> r.se.stack, pc |-> r.se.pc, err |-> r.err]
         IN  IF r.err # Ok
             THEN [se |-> r.se, ok |-> FALSE, err |-> r.err, steps |-> Append(steps, step)]
             ELSE ExecuteLoop(r.se, Append(steps, step))
    ELSE [se |-> se, ok |-> TRUE, err |-> Ok, steps |-> steps]

\* Execute that also requires a true item on top of the final stack
Execute_TrueTop(se) ==
    LET out == IF Len(se.script) = 0
               THEN [se |-> se, ok |-> TRUE, err |-> Ok, steps |-> << >>]
               ELSE ExecuteLoop(se, << >>)
    IN  IF out.ok /\ (out.se.stack = << >> \/ ~isTrue(out.se.stack[Len(out.se.stack)]))
        THEN [out EXCEPT !.ok = FALSE, !.err = "script evaluated to false"]
        ELSE out

\* Execute that, with the clean-stack flag set, requires exactly one item on
\* the final stack
Execute_CleanStack(se) ==
    LET out == IF Len(se.script) = 0
               THEN [se |-> se, ok |-> TRUE, err |-> Ok, steps |-> << >>]
               ELSE ExecuteLoop(se, << >>)
    IN  IF out.ok /\ (se.flags \div ScriptVerifyCleanStack) % 2 = 1 /\ Len(out.se.stack) # 1
        THEN [out EXCEPT !.ok = FALSE, !.err = "stack not clean"]
        ELSE out

\* ScriptEngine.Execute
Execute(se) ==
    IF Len(se.script) = 0
    THEN [se |-> se, ok |-> TRUE, err |-> Ok, steps |-> << >>]
    ELSE ExecuteLoop(se, << >>)

\* ------------------------------------------------------------- the scripts
Alphabet ==
    {OP_0, OP_1, 1, OP_DUP, OP_DROP, OP_SWAP, OP_ADD, OP_SUB, OP_EQUAL, OP_EQUALVERIFY,
     OP_VERIFY, OP_HASH160, OP_CHECKSIG, OP_NOP}

\* every script of at most MaxScriptLen bytes over the alphabet
ShortScripts == UNION {[1..n -> Alphabet] : n \in 0..MaxScriptLen}

Zeros(n) == [i \in 1..n |-> 0]

Counting(n) == [i \in 1..n |-> i]

\* the direct push of an item of at most 75 bytes
PushOf(item) == <<Len(item)>> \o item

\* signatures: a short one, one of 71 bytes with r and s zero, one of 71
\* bytes with r and s not zero; a compressed public key
Sig6 == <<48, 1, 2, 3, 4, 5>>

SigZero71 == <<48, 68, 2, 32>> \o Zeros(32) \o <<2, 32>> \o Zeros(32) \o <<1>>

SigTest71 == <<48, 68, 2, 32>> \o Counting(32) \o <<2, 32>> \o Counting(32) \o <<1>>

PubKey33 == <<2>> \o Counting(32)

LongScripts ==
    {PushOf(Sig6) \o PushOf(PubKey33) \o <<OP_CHECKSIG>>,
     PushOf(SigZero71) \o PushOf(PubKey33) \o <<OP_CHECKSIG>>,
     PushOf(SigTest71) \o PushOf(PubKey33) \o <<OP_CHECKSIG>>,
     PushOf(SigTest71) \o PushOf(PubKey33) \o <<OP_DUP, OP_HASH160>> \o
         PushOf(ZeroHash160) \o <<OP_EQUALVERIFY, OP_CHECKSIG>>,
     <<OP_1, OP_1 + 1, OP_ADD>>,
     <<OP_1, OP_1 + 1, OP_SUB>>,
     <<OP_16, OP_16, OP_ADD>>,
     <<OP_1, OP_1 + 1, OP_SWAP>>,
     <<OP_1, OP_1, OP_EQUALVERIFY>>,
     <<OP_1, OP_0, OP_EQUAL, OP_VERIFY>>,
     <<OP_1, OP_1, OP_CHECKSIG>>,
     <<OP_1, OP_1, OP_HASH160, OP_ADD>>,
     <<2, 7, 9, OP_DUP>>,
     <<3, 1, 2>>,
     PushOf(Hello) \o <<OP_HASH160>>,
     PushOf(Zeros(75)),
     <<75, 1, 2>>,
     <<76, 1, 1>>}

Scripts == ShortScripts \cup LongScripts

\* the scripts given to SetScript
NextScripts == {<< >>, <<OP_DUP>>, <<OP_ADD>>, <<OP_CHECKSIG>>, <<OP_0, OP_EQUAL>>}

\* the flag sets given to NewScriptEngine
FlagSets ==
    {ScriptFlagsNone, ScriptVerifyP2SH, ScriptVerifyCleanStack,
     ScriptVerifyP2SH + ScriptVerifyCleanStack}

ScriptInit ==
    /\ \E script \in Scripts : \E flags \in FlagSets :
          engine = NewScriptEngine(script, flags)
    /\ run = [op |-> "new", ok |-> TRUE, err |-> Ok, steps |-> << >>, sets |-> 0]
    /\ ChainUnused
    /\ PeerUnused
    /\ WireUnused
    /\ CalcUnused

ExecuteCall ==
    /\ LET out == Execute(engine)
       IN  /\ engine' = out.se
           /\ run' = [op |-> "execute", ok |-> out.ok, err |-> out.err, steps |-> out.steps,
                      sets |-> run.sets]
    /\ UNCHANGED <<chainVars, peerVars, wireVars, calcVars>>

SetScriptCall ==
    /\ run.sets < MaxSets
    /\ \E script \in NextScripts :
          /\ engine' = SetScript(engine, script)
          /\ run' = [op |-> "setscript", ok |-> TRUE, err |-> Ok, steps |-> << >>,
                     sets |-> run.sets + 1]
    /\ UNCHANGED <<chainVars, peerVars, wireVars, calcVars>>

ScriptNext == ExecuteCall \/ SetScriptCall

ScriptSpec == ScriptInit /\ [][ScriptNext]_vars

\* ---------------------------------------------------------------- C17
\* whether every opcode from the program counter on executes without error
RECURSIVE OpcodesOk(_)
OpcodesOk(se) ==
    \/ se.pc >= Len(se.script)
    \/ LET r == executeOpcode([se EXCEPT !.pc = @ + 1], se.script[se.pc + 1])
       IN  r.err = Ok /\ OpcodesOk(r.se)

\* C17: Execute returns success exactly when every opcode it runs executes
\* without error, whatever the final stack holds; on an empty script it
\* succeeds and leaves the stack as it was, so an empty stack stays empty
C17_SuccessIffNoOpcodeError ==
    [][run'.op = "execute" =>
          /\ run'.ok <=> OpcodesOk(engine)
          /\ run'.ok <=> (run'.err = Ok)
          /\ Len(engine.script) = 0 => (run'.ok /\ engine'.stack = engine.stack)]_vars

\* a script of two opcodes or more has succeeded and left an empty stack
C17_Witness ==
    /\ run.op = "execute"
    /\ run.ok
    /\ Len(run.steps) >= 2
    /\ engine.stack = << >>

\* ---------------------------------------------------------------- C18
NeedOne == {OP_DUP, OP_DROP, OP_VERIFY, OP_HASH160}

NeedTwo == {OP_SWAP, OP_ADD, OP_SUB, OP_EQUAL, OP_EQUALVERIFY, OP_CHECKSIG}

Underflow(step) ==
    \/ step.opcode \in NeedOne /\ Len(step.before) = 0
    \/ step.opcode \in NeedTwo /\ Len(step.before) < 2

\* C18: an opcode that needs one item and finds an empty stack, or needs
\* two and finds fewer, fails with an error, makes Execute fail, and leaves
\* the stack as it was before that opcode
C18_UnderflowFailsStackKept ==
    run.op = "execute" =>
        \A i \in 1..Len(run.steps) :
            Underflow(run.steps[i]) =>
                /\ run.steps[i].err # Ok
                /\ run.steps[i].after = run.steps[i].before
                /\ i = Len(run.steps)
                /\ ~run.ok
                /\ run.err = run.steps[i].err
                /\ engine.stack = run.steps[i].before

\* OP_ADD has failed on a stack of one item
C18_Witness ==
    /\ run.op = "execute"
    /\ ~run.ok
    /\ Len(run.steps) >= 1
    /\ run.steps[Len(run.steps)].opcode = OP_ADD
    /\ Len(run.steps[Len(run.steps)].before) = 1
    /\ engine.stack = run.steps[Len(run.steps)].before

\* ---------------------------------------------------------------- C19
\* C19: a push opcode b in 1..75 with at least b bytes after it pushes
\* exactly those b bytes as one item and execution goes on right after
\* them (b bytes that end the script included); with fewer than b bytes
\* after it the script fails and nothing is pushed
C19_DirectPush ==
    run.op = "execute" =>
        \A i \in 1..Len(run.steps) :
            LET step == run.steps[i]
                b == step.opcode
                remaining == Len(engine.script) - (step.at + 1)
            IN  (b >= 1 /\ b <= 75) =>
                    IF remaining >= b
                    THEN /\ step.err = Ok
                         /\ step.after =
                              Append(step.before, SubSeq(engine.script, step.at + 2, step.at + 1 + b))
                         /\ step.pc = step.at + 1 + b
                         /\ IF step.pc < Len(engine.script)
                            THEN i < Len(run.steps) /\ run.steps[i + 1].at = step.pc
                            ELSE i = Len(run.steps) /\ run.ok
                    ELSE /\ step.err # Ok
                         /\ step.after = step.before
                         /\ i = Len(run.steps)
                         /\ ~run.ok

\* a push of two bytes or more has consumed exactly the rest of the script
C19_Witness ==
    /\ run.op = "execute"
    /\ run.ok
    /\ Len(run.steps) >= 1
    /\ LET step == run.steps[Len(run.steps)]
       IN  /\ step.opcode >= 2
           /\ step.opcode <= 75
           /\ step.pc = Len(engine.script)
           /\ Len(engine.stack[Len(engine.stack)]) = step.opcode

\* ---------------------------------------------------------------- C20
\* C20: OP_CHECKSIG on a stack of two items or more never fails; it pops
\* the public key and the signature and pushes one item, 0x01 when the
\* signature verifies and the empty string when it does not
C20_CheckSigPushesOneItem ==
    run.op = "execute" =>
        \A i \in 1..Len(run.steps) :
            LET step == run.steps[i]
                n == Len(step.before)
            IN  (step.opcode = OP_CHECKSIG /\ n >= 2) =>
                    /\ step.err = Ok
                    /\ step.after =
                         Append(SubSeq(step.before, 1, n - 2),
                                IF verifySignature(step.before[n - 1], step.before[n])
                                THEN <<1>> ELSE << >>)

\* ---------------------------------------------------------------- C36
\* C36: the program counter is always between 0 and the length of the
\* script; a call of Execute runs at most as many opcode steps as the script
\* has bytes, each step starts where the one before it ended and ends at a
\* strictly larger program counter, and a successful call ends at the end of
\* the script
C36_ProgramCounterBounded ==
    /\ engine.pc >= 0
    /\ engine.pc <= Len(engine.script)
    /\ run.op = "execute" =>
          /\ Len(run.steps) <= Len(engine.script)
          /\ \A i \in 1..Len(run.steps) :
                /\ run.steps[i].at >= 0
                /\ run.steps[i].pc > run.steps[i].at
                /\ run.steps[i].pc <= Len(engine.script)
                /\ i < Len(run.steps) => run.steps[i + 1].at = run.steps[i].pc
          /\ Len(run.steps) > 0 => engine.pc = run.steps[Len(run.steps)].pc
          /\ run.ok => engine.pc = Len(engine.script)

\* a script of five opcodes with direct pushes has run to its end
C36_Witness ==
    /\ run.op = "execute"
    /\ run.ok
    /\ Len(run.steps) >= 5
    /\ Len(run.steps) < Len(engine.script)
    /\ engine.pc = Len(engine.script)

\* ---------------------------------------------------------------- C37
\* C37: a call of Execute that follows, with no SetScript in between, a call
\* of Execute that returned an error does not return success
C37_FailureIsSticky ==
    [][(run.op = "execute" /\ ~run.ok /\ run'.op = "execute") => ~run'.ok]_vars

\* ---------------------------------------------------------------- C38
\* C38: a call of Execute returns the same result, with the same error, the
\* same opcode steps, the same final stack and the same program counter, as
\* the call on an engine that differs only in its flags
C38_FlagsIgnored ==
    [][run'.op = "execute" =>
          \A flags \in FlagSets :
              LET twin == Execute([engine EXCEPT !.flags = flags])
              IN  /\ twin.ok = run'.ok
                  /\ twin.err = run'.err
                  /\ twin.steps = run'.steps
                  /\ twin.se.stack = engine'.stack
                  /\ twin.se.pc = engine'.pc]_vars

\* an engine with a flag set has run a signature check to the end
C38_Witness ==
    /\ run.op = "execute"
    /\ run.ok
    /\ engine.flags # ScriptFlagsNone
    /\ Len(run.steps) >= 3
    /\ run.steps[Len(run.steps)].opcode = OP_CHECKSIG
    /\ engine.stack # << >>

\* ===================================================== the script numbers
\* The longest byte string given to bytesToNum.
MaxNumLen == 9

\* the byte values the numbers and byte strings are made of
NumBytes == {0, 1, 127, 128, 255}

\* int64 values: the two low bytes and the two high bytes vary, the four
\* bytes between them are all 0 or all 255; the most negative value, the
\* greatest value, -1 and the values that need a pad byte are among them
Int64s ==
    {[i \in 1..8 |-> IF i = 1 THEN a ELSE IF i = 2 THEN b ELSE IF i = 7 THEN c
                     ELSE IF i = 8 THEN d ELSE f] :
        a \in NumBytes, b \in NumBytes, c \in NumBytes, d \in NumBytes, f \in {0, 255}}

MinInt64 == [i \in 1..8 |-> IF i = 8 THEN 128 ELSE 0]

\* byte strings of up to MaxNumLen bytes: a first byte, a last byte and the
\* same byte between them
NumStrings ==
    {[i \in 1..n |-> IF i = 1 THEN a ELSE IF i = n THEN b ELSE f] :
        n \in 0..MaxNumLen, a \in NumBytes, b \in NumBytes, f \in {0, 255}}

NumInit ==
    /\ \/ \E n \in Int64s : calc = [op |-> "int", num |-> n, bytes |-> << >>]
       \/ \E s \in NumStrings : calc = [op |-> "bytes", num |-> Zero64, bytes |-> s]
    /\ ChainUnused
    /\ PeerUnused
    /\ WireUnused
    /\ ScriptUnused

\* se.numToBytes(num) on a given number or on a decoded one
NumToBytesCall ==
    /\ calc.op \in {"int", "bytesToNum"}
    /\ calc' = [op |-> "numToBytes", num |-> calc.num, bytes |-> numToBytes(calc.num)]
    /\ UNCHANGED <<chainVars, peerVars, wireVars, scriptVars>>

\* se.bytesToNum(data) on a given byte string or on an encoded number
BytesToNumCall ==
    /\ calc.op \in {"bytes", "numToBytes"}
    /\ calc' = [op |-> "bytesToNum", num |-> bytesToNum(calc.bytes), bytes |-> calc.bytes]
    /\ UNCHANGED <<chainVars, peerVars, wireVars, scriptVars>>

NumNext == NumToBytesCall \/ BytesToNumCall

NumSpec == NumInit /\ [][NumNext]_vars

\* ---------------------------------------------------------------- C21
\* C21: the encoding of every int64 has at most 8 bytes, and decoding the
\* encoding of n returns n.
C21_NumRoundTrip ==
    [][(calc.op = "numToBytes" /\ calc'.op = "bytesToNum") =>
          (Len(calc.bytes) <= 8 /\ calc'.num = calc.num)]_vars

\* ---------------------------------------------------------------- C22
\* C22: decoding a byte string of more than 8 bytes yields zero.
C22_LongInputIsZero ==
    (calc.op = "bytesToNum" /\ Len(calc.bytes) > 8) => calc.num = Zero64

\* ============================================ the transaction wire format
\* The greatest number of inputs, of outputs and of witness items of a
\* transaction given to Serialize.
MaxTxItems == 2

\* A uint64 is written as its eight base-256 digits, most significant
\* first; a uint32 (ToUint32 above) as its four.
ToUint64(n) == [i \in 1..8 |-> IF i <= 4 THEN 0 ELSE (n \div Pow256(8 - i)) % 256]

\* a < b on uint64 or uint32
UintLess(a, b) ==
    \E i \in 1..Len(a) : a[i] < b[i] /\ \A j \in 1..(i - 1) : a[j] = b[j]

\* uint16(value), uint32(value): the low digits
Low(value, n) == SubSeq(value, Len(value) - n + 1, Len(value))

\* uint64(v) of a narrower unsigned value
Widen(v) == [i \in 1..8 |-> IF i <= 8 - Len(v) THEN 0 ELSE v[i - (8 - Len(v))]]

\* binary.LittleEndian.PutUint16 / PutUint32 / PutUint64 and Uint16 /
\* Uint32 / Uint64: the digits, least significant first
LittleEndian(v) == [i \in 1..Len(v) |-> v[Len(v) + 1 - i]]

\* data[n:]
From(data, n) == SubSeq(data, n + 1, Len(data))

\* EncodeVarInt with the first range one value too wide
EncodeVarInt_Boundary(value) ==
    IF ~UintLess(ToUint64(253), value) THEN <<value[8]>>
    ELSE IF ~UintLess(ToUint64(65535), value) THEN <<253>> \o LittleEndian(Low(value, 2))
    ELSE IF ~UintLess(Widen(<<255, 255, 255, 255>>), value)
         THEN <<254>> \o LittleEndian(Low(value, 4))
    ELSE <<255>> \o LittleEndian(value)

EncodeVarInt(value) ==
    IF UintLess(value, ToUint64(253)) THEN <<value[8]>>
    ELSE IF ~UintLess(ToUint64(65535), value) THEN <<253>> \o LittleEndian(Low(value, 2))
    ELSE IF ~UintLess(Widen(<<255, 255, 255, 255>>), value)
         THEN <<254>> \o LittleEndian(Low(value, 4))
    ELSE <<255>> \o LittleEndian(value)

\* DecodeVarInt: (value, bytesRead, err)
DecodeVarInt(data) ==
    IF Len(data) = 0
    THEN [value |-> ToUint64(0), bytesRead |-> 0, err |-> "empty data"]
    ELSE LET first == data[1]
         IN  IF first < 253
             THEN [value |-> ToUint64(first), bytesRead |-> 1, err |-> Ok]
             ELSE IF first = 253
             THEN IF Len(data) < 3
                  THEN [value |-> ToUint64(0), bytesRead |-> 0,
                        err |-> "insufficient data for fd varint"]
                  ELSE [value |-> Widen(LittleEndian(SubSeq(data, 2, 3))),
                        bytesRead |-> 3, err |-> Ok]
             ELSE IF first = 254
             THEN IF Len(data) < 5
                  THEN [value |-> ToUint64(0), bytesRead |-> 0,
                        err |-> "insufficient data for fe varint"]
                  ELSE [value |-> Widen(LittleEndian(SubSeq(data, 2, 5))),
                        bytesRead |-> 5, err |-> Ok]
             ELSE IF Len(data) < 9
                  THEN [value |-> ToUint64(0), bytesRead |-> 0,
                        err |-> "insufficient data for ff varint"]
                  ELSE [value |-> LittleEndian(SubSeq(data, 2, 9)),
                        bytesRead |-> 9, err |-> Ok]

\* Transaction.HasWitness
HasWitness(tx) ==
    \/ Len(tx.Witnesses) > 0
    \/ \E i \in 1..Len(tx.Inputs) : Len(tx.Inputs[i].Witness) > 0

\* the bytes Serialize writes for the inputs from the i-th on
RECURSIVE WriteInputs(_, _)
WriteInputs(inputs, i) ==
    IF i > Len(inputs) THEN << >>
    ELSE LET input == inputs[i]
         IN  LittleEndian(input.PreviousOutput.Hash)
               \o LittleEndian(input.PreviousOutput.Index)
               \o EncodeVarInt(ToUint64(Len(input.ScriptSig)))
               \o input.ScriptSig
               \o LittleEndian(input.Sequence)
               \o WriteInputs(inputs, i + 1)

RECURSIVE WriteOutputs(_, _)
WriteOutputs(outputs, i) ==
    IF i > Len(outputs) THEN << >>
    ELSE LET output == outputs[i]
         IN  LittleEndian(output.Value)
               \o EncodeVarInt(ToUint64(Len(output.ScriptPubKey)))
               \o output.ScriptPubKey
               \o WriteOutputs(outputs, i + 1)

\* the elements of a witness stack from the i-th on, each with its length
RECURSIVE WriteElements(_, _)
WriteElements(stack, i) ==
    IF i > Len(stack) THEN << >>
    ELSE EncodeVarInt(ToUint64(Len(stack[i]))) \o stack[i] \o WriteElements(stack, i + 1)

\* the witness stacks from the i-th on, each with its number of elements
RECURSIVE WriteStacks(_, _)
WriteStacks(stacks, i) ==
    IF i > Len(stacks) THEN << >>
    ELSE EncodeVarInt(ToUint64(Len(stacks[i]))) \o WriteElements(stacks[i], 1)
           \o WriteStacks(stacks, i + 1)

\* Transaction.Serialize; writing to the buffer never fails
TxSerialize(tx) ==
    LET hasWitness == HasWitness(tx)
    IN  LittleEndian(tx.Version)
          \o (IF hasWitness THEN <<0, 1>> ELSE << >>)
          \o EncodeVarInt(ToUint64(Len(tx.Inputs)))
          \o WriteInputs(tx.Inputs, 1)
          \o EncodeVarInt(ToUint64(Len(tx.Outputs)))
          \o WriteOutputs(tx.Outputs, 1)
          \o (IF hasWitness
              THEN WriteStacks([i \in 1..Len(tx.Inputs) |-> tx.Inputs[i].Witness], 1)
                     \o WriteStacks([i \in 1..Len(tx.Witnesses) |-> tx.Witnesses[i].Stack], 1)
              ELSE << >>)
          \o LittleEndian(tx.LockTime)

\* a count or length above 0x7fffffff
TooLarge(value) == UintLess(Widen(<<127, 255, 255, 255>>), value)

\* int(value) of a value that is not too large
ToInt(value) == Uint32ToInt(Low(value, 4))

\* the input loop of DeserializeTransaction from input i (counted from 0)
\* on: the inputs read, the offset reached and the error
RECURSIVE ReadInputs(_, _, _, _, _)
ReadInputs(data, offset, i, inputCount, inputs) ==
    IF i >= inputCount THEN [items |-> inputs, offset |-> offset, err |-> Ok]
    ELSE IF Len(data) - offset < 32
    THEN [items |-> inputs, offset |-> offset, err |-> "insufficient data for input hash"]
    ELSE IF Len(data) - (offset + 32) < 4
    THEN [items |-> inputs, offset |-> offset, err |-> "insufficient data for input index"]
    ELSE LET hash == [j \in 1..32 |-> data[offset + 33 - j]]
             index == LittleEndian(SubSeq(data, offset + 33, offset + 36))
             scriptLen == DecodeVarInt(From(data, offset + 36))
             at == offset + 36 + scriptLen.bytesRead
         IN  IF scriptLen.err # Ok
             THEN [items |-> inputs, offset |-> offset,
                   err |-> "failed to decode input script length"]
             ELSE IF TooLarge(scriptLen.value)
             THEN [items |-> inputs, offset |-> offset,
                   err |-> "input script length too large"]
             ELSE IF Len(data) - at < ToInt(scriptLen.value)
             THEN [items |-> inputs, offset |-> offset,
                   err |-> "insufficient data for input script"]
             ELSE IF Len(data) - (at + ToInt(scriptLen.value)) < 4
             THEN [items |-> inputs, offset |-> offset,
                   err |-> "insufficient data for input sequence"]
             ELSE LET end == at + ToInt(scriptLen.value)
                      input == [PreviousOutput |-> [Hash |-> hash, Index |-> index],
                                ScriptSig |-> SubSeq(data, at + 1, end),
                                Sequence |-> LittleEndian(SubSeq(data, end + 1, end + 4)),
                                Witness |-> << >>]
                  IN  ReadInputs(data, end + 4, i + 1, inputCount, Append(inputs, input))

\* the output loop of DeserializeTransaction
RECURSIVE ReadOutputs(_, _, _, _, _)
ReadOutputs(data, offset, i, outputCount, outputs) ==
    IF i >= outputCount THEN [items |-> outputs, offset |-> offset, err |-> Ok]
    ELSE IF Len(data) - offset < 8
    THEN [items |-> outputs, offset |-> offset, err |-> "insufficient data for output value"]
    ELSE LET value == LittleEndian(SubSeq(data, offset + 1, offset + 8))
             scriptLen == DecodeVarInt(From(data, offset + 8))
             at == offset + 8 + scriptLen.bytesRead
         IN  IF scriptLen.err # Ok
             THEN [items |-> outputs, offset |-> offset,
                   err |-> "failed to decode output script length"]
             ELSE IF TooLarge(scriptLen.value)
             THEN [items |-> outputs, offset |-> offset,
                   err |-> "output script length too large"]
             ELSE IF Len(data) - at < ToInt(scriptLen.value)
             THEN [items |-> outputs, offset |-> offset,
                   err |-> "insufficient data for output script"]
             ELSE LET end == at + ToInt(scriptLen.value)
                      output == [Value |-> value, ScriptPubKey |-> SubSeq(data, at + 1, end)]
                  IN  ReadOutputs(data, end, i + 1, outputCount, Append(outputs, output))

\* DeserializeTransaction: (tx, err); a nil *Transaction is << >>.  A nil
\* slice and an empty one are both << >>.
DeserializeTransaction(data) ==
    IF Len(data) = 0 THEN [tx |-> << >>, err |-> "empty transaction data"]
    ELSE IF Len(data) < 4 THEN [tx |-> << >>, err |-> "insufficient data for version"]
    ELSE LET version == LittleEndian(SubSeq(data, 1, 4))
             inputCount == DecodeVarInt(From(data, 4))
         IN  IF inputCount.err # Ok
             THEN [tx |-> << >>, err |-> "failed to decode input count"]
             ELSE IF TooLarge(inputCount.value)
             THEN [tx |-> << >>, err |-> "input count too large"]
             ELSE LET ins == ReadInputs(data, 4 + inputCount.bytesRead, 0,
                                        ToInt(inputCount.value), << >>)
                  IN  IF ins.err # Ok THEN [tx |-> << >>, err |-> ins.err]
                      ELSE LET outputCount == DecodeVarInt(From(data, ins.offset))
                           IN  IF outputCount.err # Ok
                               THEN [tx |-> << >>, err |-> "failed to decode output count"]
                               ELSE IF TooLarge(outputCount.value)
                               THEN [tx |-> << >>, err |-> "output count too large"]
                               ELSE LET outs == ReadOutputs(data,
                                                    ins.offset + outputCount.bytesRead, 0,
                                                    ToInt(outputCount.value), << >>)
                                    IN  IF outs.err # Ok THEN [tx |-> << >>, err |-> outs.err]
                                        ELSE IF Len(data) - outs.offset < 4
                                        THEN [tx |-> << >>,
                                              err |-> "insufficient data for locktime"]
                                        ELSE [tx |-> <<[Version |-> version,
                                                        Inputs |-> ins.items,
                                                        Outputs |-> outs.items,
                                                        LockTime |-> LittleEndian(
                                                            SubSeq(data, outs.offset + 1,
                                                                   outs.offset + 4)),
                                                        Witnesses |-> << >>]>>,
                                              err |-> Ok]

\* ------------------------------------------- the values, transactions, buffers
\* uint64 values around the limits of the four VarInt forms
Uint64s ==
    {[i \in 1..8 |-> IF i = 8 THEN a ELSE IF i = 7 THEN b ELSE IF i \in {5, 6} THEN c
                     ELSE IF i = 4 THEN d ELSE e] :
        a \in {0, 1, 252, 253, 254, 255}, b \in {0, 1, 255}, c \in {0, 1, 255},
        d \in {0, 1, 255}, e \in {0, 255}}
      \cup {ToUint64(65536), Widen(<<1, 0, 0, 0, 0>>)}

CodecHash == [j \in 1..32 |-> j]

CodecInputs ==
    {[PreviousOutput |-> [Hash |-> [j \in 1..32 |-> 0], Index |-> <<255, 255, 255, 255>>],
      ScriptSig |-> << >>, Sequence |-> <<255, 255, 255, 255>>, Witness |-> << >>],
     [PreviousOutput |-> [Hash |-> CodecHash, Index |-> <<0, 0, 1, 2>>],
      ScriptSig |-> <<1, 2, 3>>, Sequence |-> <<0, 0, 0, 5>>, Witness |-> << >>],
     [PreviousOutput |-> [Hash |-> CodecHash, Index |-> ToUint32(1)],
      ScriptSig |-> [i \in 1..253 |-> 0], Sequence |-> ToUint32(0), Witness |-> << >>],
     [PreviousOutput |-> [Hash |-> CodecHash, Index |-> <<0, 0, 1, 2>>],
      ScriptSig |-> <<1, 2, 3>>, Sequence |-> <<0, 0, 0, 5>>,
      Witness |-> <<<<7>>, << >>>>],
     [PreviousOutput |-> [Hash |-> CodecHash, Index |-> ToUint32(0)],
      ScriptSig |-> << >>, Sequence |-> <<255, 255, 255, 255>>,
      Witness |-> <<<<1, 2>>>>]}

CodecOutputs ==
    {[Value |-> ToUint64(0), ScriptPubKey |-> << >>],
     [Value |-> <<0, 7, 117, 240, 90, 7, 64, 0>>, ScriptPubKey |-> <<118, 169, 20>>]}

\* the sequences over S of at most n items
SeqsUpTo(S, n) == UNION {[1..k -> S] : k \in 0..n}

CodecTxs ==
    {[Version |-> v, Inputs |-> ins, Outputs |-> outs, LockTime |-> l, Witnesses |-> w] :
        v \in {ToUint32(1), <<1, 2, 3, 4>>},
        ins \in SeqsUpTo(CodecInputs, MaxTxItems),
        outs \in SeqsUpTo(CodecOutputs, MaxTxItems),
        l \in {ToUint32(0), <<0, 0, 1, 0>>},
        w \in {<< >>, <<[Stack |-> <<<<9>>>>]>>}}

\* buffers: the VarInt encodings cut short, and a serialised transaction cut
\* short
Prefixes(s) == {SubSeq(s, 1, k) : k \in 0..Len(s)}

CodecBuffers ==
    UNION {Prefixes(EncodeVarInt(v)) :
             v \in {ToUint64(7), ToUint64(253), ToUint64(65536), Widen(<<1, 0, 0, 0, 0>>)}}
      \cup
    Prefixes(TxSerialize([Version |-> ToUint32(1),
                          Inputs |-> <<CHOOSE i \in CodecInputs : i.ScriptSig = <<1, 2, 3>>
                                                                   /\ i.Witness = << >>>>,
                          Outputs |-> <<CHOOSE o \in CodecOutputs : o.ScriptPubKey # << >>>>,
                          LockTime |-> ToUint32(0), Witnesses |-> << >>]))

\* calc in this specification: the call, the uint64, the transaction (a
\* sequence of length 0 or 1), the buffer, the bytes read and the error
TxCalc(op, value, tx, data, read, err) ==
    [op |-> op, value |-> value, tx |-> tx, data |-> data, read |-> read, err |-> err]

TxInit ==
    /\ \/ \E v \in Uint64s : calc = TxCalc("uint64", v, << >>, << >>, 0, Ok)
       \/ \E tx \in CodecTxs : calc = TxCalc("tx", ToUint64(0), <<tx>>, << >>, 0, Ok)
       \/ \E b \in CodecBuffers : calc = TxCalc("bytes", ToUint64(0), << >>, b, 0, Ok)
    /\ ChainUnused
    /\ PeerUnused
    /\ WireUnused
    /\ ScriptUnused

\* EncodeVarInt(value)
EncodeVarIntCall ==
    /\ calc.op = "uint64"
    /\ calc' = TxCalc("EncodeVarInt", calc.value, << >>, EncodeVarInt(calc.value), 0, Ok)
    /\ UNCHANGED <<chainVars, peerVars, wireVars, scriptVars>>

\* DecodeVarInt(data) on a given buffer or on an encoding
DecodeVarIntCall ==
    /\ calc.op \in {"bytes", "EncodeVarInt"}
    /\ LET out == DecodeVarInt(calc.data)
       IN  calc' = TxCalc("DecodeVarInt", out.value, << >>, calc.data, out.bytesRead, out.err)
    /\ UNCHANGED <<chainVars, peerVars, wireVars, scriptVars>>

\* tx.Serialize() on a given transaction or on a deserialised one
TxSerializeCall ==
    /\ calc.op \in {"tx", "DeserializeTransaction"}
    /\ calc.tx # << >>
    /\ calc' = TxCalc("Serialize", ToUint64(0), calc.tx, TxSerialize(calc.tx[1]), 0, Ok)
    /\ UNCHANGED <<chainVars, peerVars, wireVars, scriptVars>>

\* DeserializeTransaction(data) on a given buffer or on a serialisation
DeserializeTransactionCall ==
    /\ calc.op \in {"bytes", "Serialize"}
    /\ LET out == DeserializeTransaction(calc.data)
       IN  calc' = TxCalc("DeserializeTransaction", ToUint64(0), out.tx, calc.data, 0, out.err)
    /\ UNCHANGED <<chainVars, peerVars, wireVars, scriptVars>>

TxNext ==
    EncodeVarIntCall \/ DecodeVarIntCall \/ TxSerializeCall \/ DeserializeTransactionCall

TxSpec == TxInit /\ [][TxNext]_vars

\* ---------------------------------------------------------------- C23
\* C23: deserialising the serialisation of a transaction, with or without
\* witness data, succeeds and yields an equal transaction.
C23_TxRoundTrip ==
    [][(calc.op = "Serialize" /\ calc'.op = "DeserializeTransaction") =>
          (calc'.err = Ok /\ calc'.tx = calc.tx)]_vars

MaxOutputs == 8785

\* MaxMoney = 21000000 * 100000000, as a uint64
MaxMoney == <<0, 7, 117, 240, 90, 7, 64, 0>>

\* The outputs of a transaction given to Validate are written as runs
\* <<output, count>> of equal outputs.  The loop of TotalOutput adds the
\* value of a run count times to a uint64; the sum of a run is computed
\* digit by digit with the carry out of the top digit dropped, which is
\* what count wrapping additions give.
\* total + count * value on `width` digits, from digit i down, with carry c
RECURSIVE AddTimesFrom(_, _, _, _, _)
AddTimesFrom(total, value, count, i, c) ==
    IF i = 0 THEN << >>
    ELSE LET t == total[i] + value[i] * count + c
         IN  Append(AddTimesFrom(total, value, count, i - 1, t \div 256), t % 256)

AddTimes(total, value, count) == AddTimesFrom(total, value, count, Len(total), 0)

\* Transaction.TotalOutput over the runs from the i-th on
RECURSIVE TotalOutputFrom(_, _, _)
TotalOutputFrom(outputs, i, total) ==
    IF i > Len(outputs) THEN total
    ELSE TotalOutputFrom(outputs, i + 1, AddTimes(total, outputs[i][1].Value, outputs[i][2]))

TotalOutput(tx) == TotalOutputFrom(tx.Outputs, 1, ToUint64(0))

\* len(tx.Outputs) from the i-th run on
RECURSIVE NumOutputsFrom(_, _)
NumOutputsFrom(outputs, i) ==
    IF i > Len(outputs) THEN 0 ELSE outputs[i][2] + NumOutputsFrom(outputs, i + 1)

NumOutputs(tx) == NumOutputsFrom(tx.Outputs, 1)

\* Transaction.Validate: the error, Ok for nil
Validate(tx) ==
    IF Len(tx.Inputs) = 0 THEN "transaction has no inputs"
    ELSE IF NumOutputs(tx) = 0 THEN "transaction has no outputs"
    ELSE IF \E i \in 1..Len(tx.Inputs) : \E j \in 1..(i - 1) :
               tx.Inputs[j].PreviousOutput = tx.Inputs[i].PreviousOutput
    THEN "transaction has duplicate inputs"
    ELSE IF \E i \in 1..Len(tx.Outputs) : UintLess(MaxMoney, tx.Outputs[i][1].Value)
    THEN "output value exceeds maximum"
    ELSE IF UintLess(MaxMoney, TotalOutput(tx))
    THEN "total output value exceeds maximum"
    ELSE Ok

\* ------------------------------------------------ the transactions validated
OutputValues == {ToUint64(0), ToUint64(1), MaxMoney, AddTimes(MaxMoney, ToUint64(1), 1)}

OutputRuns ==
    {<<[Value |-> v, ScriptPubKey |-> << >>], n>> :
        v \in OutputValues, n \in {1, 2, MaxOutputs - 1, MaxOutputs}}

ValidatedTxs ==
    {[Version |-> ToUint32(1), Inputs |-> ins, Outputs |-> outs, LockTime |-> ToUint32(0),
      Witnesses |-> << >>] :
        ins \in SeqsUpTo(CodecInputs, 2), outs \in SeqsUpTo(OutputRuns, 2)}

ValidateInit ==
    /\ \E tx \in ValidatedTxs : calc = [op |-> "tx", tx |-> tx, err |-> Ok]
    /\ ChainUnused
    /\ PeerUnused
    /\ WireUnused
    /\ ScriptUnused

\* tx.Validate()
ValidateCall ==
    /\ calc.op = "tx"
    /\ calc' = [op |-> "Validate", tx |-> calc.tx, err |-> Validate(calc.tx)]
    /\ UNCHANGED <<chainVars, peerVars, wireVars, scriptVars>>

ValidateNext == ValidateCall

ValidateSpec == ValidateInit /\ [][ValidateNext]_vars

\* ---------------------------------------------------------------- C25
\* the sum of the output values as a number of ten digits, which no
\* transaction of the model overflows
TrueTotal(tx) ==
    TotalOutputFrom([i \in 1..Len(tx.Outputs) |->
                        <<[Value |-> <<0, 0>> \o tx.Outputs[i][1].Value], tx.Outputs[i][2]>>],
                    1, [i \in 1..10 |-> 0])

\* C25: a transaction for which Validate succeeds has an input, an output,
\* no two inputs with the same OutPoint, every output value at most
\* MaxMoney and a true sum of the output values at most MaxMoney.
C25_ValidatedIsSane ==
    (calc.op = "Validate" /\ calc.err = Ok) =>
        /\ Len(calc.tx.Inputs) >= 1
        /\ NumOutputs(calc.tx) >= 1
        /\ \A i, j \in 1..Len(calc.tx.Inputs) :
              i # j => calc.tx.Inputs[i].PreviousOutput # calc.tx.Inputs[j].PreviousOutput
        /\ \A i \in 1..Len(calc.tx.Outputs) :
              ~UintLess(MaxMoney, calc.tx.Outputs[i][1].Value)
        /\ ~UintLess(<<0, 0>> \o MaxMoney, TrueTotal(calc.tx))

\* ============================== proof of work on the whole range of uint32
\* The greatest exponent byte of the compact values, 255 apart.
MaxExponent == 34

\* A big.Int that is not negative is written as the bytes of Bytes(): its
\* base-256 digits, most significant first, without leading zeros; zero is
\* << >>.  A compact value and a time are uint32 values of four digits.
\* The functions below are CompactToBigTarget and ValidateProofOfWork on
\* these numbers, which hold every target and every hash.

\* SetBytes, big.NewInt: the digits without the leading zeros
RECURSIVE Strip(_)
Strip(b) == IF b # << >> /\ b[1] = 0 THEN Strip(Tail(b)) ELSE b

\* Lsh and Rsh by a number of whole bytes
Lsh(x, n) == IF x = << >> THEN << >> ELSE x \o [i \in 1..n |-> 0]

Rsh(x, n) == IF Len(x) <= n THEN << >> ELSE SubSeq(x, 1, Len(x) - n)

\* a.Cmp(b)
Cmp(a, b) ==
    IF Len(a) < Len(b) THEN -1
    ELSE IF Len(a) > Len(b) THEN 1
    ELSE IF UintLess(a, b) THEN -1
    ELSE IF UintLess(b, a) THEN 1
    ELSE 0

\* the digits of a carry
RECURSIVE CarryDigits(_)
CarryDigits(c) == IF c = 0 THEN << >> ELSE Append(CarryDigits(c \div 256), c % 256)

\* x times n for 0 <= n < 2^23, from digit i down, with carry c
RECURSIVE MulFrom(_, _, _, _)
MulFrom(x, n, i, c) ==
    IF i = 0 THEN CarryDigits(c)
    ELSE Append(MulFrom(x, n, i - 1, (x[i] * n + c) \div 256), (x[i] * n + c) % 256)

Mul(x, n) == Strip(MulFrom(x, n, Len(x), 0))

\* the quotient of x by n for 0 < n < 2^23, from digit i on, with remainder r
RECURSIVE DivFrom(_, _, _, _)
DivFrom(x, n, i, r) ==
    IF i > Len(x) THEN << >>
    ELSE <<(r * 256 + x[i]) \div n>> \o DivFrom(x, n, i + 1, (r * 256 + x[i]) % n)

Div(x, n) == Strip(DivFrom(x, n, 1, 0))

\* CompactToBigTarget
CompactToBigTarget256(compactBits) ==
    IF compactBits = ToUint32(0) THEN << >>
    ELSE LET exponent == compactBits[1]
             mantissa == <<0, compactBits[2], compactBits[3], compactBits[4]>>
         IN  IF exponent > 32 THEN << >>
             ELSE IF exponent <= 3
                  THEN IF exponent < 3 THEN Rsh(Strip(mantissa), 3 - exponent)
                       ELSE Strip(mantissa)
                  ELSE Lsh(Strip(mantissa), exponent - 3)

\* ValidateProofOfWork
ValidateProofOfWork256(blockHash, targetBits) ==
    Cmp(Strip(blockHash), CompactToBigTarget256(targetBits)) <= 0

\* BigTargetToCompact without the shift of a mantissa whose high bit is set
BigTargetToCompact_NoShift(target) ==
    IF target = << >> THEN ToUint32(0)
    ELSE LET exponent == Len(target)
             mantissa == IF exponent >= 3 THEN <<0, target[1], target[2], target[3]>>
                         ELSE IF exponent = 2 THEN <<0, target[1], target[2], 0>>
                         ELSE <<0, target[1], 0, 0>>
         IN  IF exponent > 255 THEN ToUint32(0)
             ELSE <<exponent, mantissa[2], mantissa[3], mantissa[4]>>

BigTargetToCompact(target) ==
    IF target = << >> THEN ToUint32(0)
    ELSE LET len == Len(target)
             first == IF len >= 3 THEN <<0, target[1], target[2], target[3]>>
                      ELSE IF len = 2 THEN <<0, target[1], target[2], 0>>
                      ELSE <<0, target[1], 0, 0>>
             high == first[2] >= 128
             mantissa == IF high THEN <<0, 0, first[2], first[3]>> ELSE first
             exponent == IF high THEN len + 1 ELSE len
         IN  IF exponent > 255 THEN ToUint32(0)
             ELSE <<exponent, mantissa[2], mantissa[3], mantissa[4]>>

targetTimespan == 14 * 24 * 60 * 60

maxAdjustment == 4

\* AdjustDifficulty with the upper limit one timespan too high
AdjustDifficulty_WideMax(currentTargetBits, actualTimeSeconds) ==
    IF actualTimeSeconds = ToUint32(0) THEN currentTargetBits
    ELSE IF actualTimeSeconds = ToUint32(targetTimespan) THEN currentTargetBits
    ELSE LET currentTarget == CompactToBigTarget256(currentTargetBits)
             actualTime == Strip(actualTimeSeconds)
             maxTime == Strip(ToUint32(targetTimespan * (maxAdjustment + 1)))
             minTime == Strip(ToUint32(targetTimespan \div maxAdjustment))
             capped == IF Cmp(actualTime, maxTime) > 0 THEN maxTime ELSE actualTime
             limited == IF Cmp(capped, minTime) < 0 THEN minTime ELSE capped
         IN  BigTargetToCompact(Div(Mul(currentTarget, Uint32ToInt(Low(Widen(limited), 4))),
                                    targetTimespan))

AdjustDifficulty(currentTargetBits, actualTimeSeconds) ==
    IF actualTimeSeconds = ToUint32(0) THEN currentTargetBits
    ELSE IF actualTimeSeconds = ToUint32(targetTimespan) THEN currentTargetBits
    ELSE LET currentTarget == CompactToBigTarget256(currentTargetBits)
             actualTime == Strip(actualTimeSeconds)
             maxTime == Strip(ToUint32(targetTimespan * maxAdjustment))
             minTime == Strip(ToUint32(targetTimespan \div maxAdjustment))
             capped == IF Cmp(actualTime, maxTime) > 0 THEN maxTime ELSE actualTime
             limited == IF Cmp(capped, minTime) < 0 THEN minTime ELSE capped
         IN  BigTargetToCompact(Div(Mul(currentTarget, Uint32ToInt(Low(Widen(limited), 4))),
                                    targetTimespan))

\* --------------------------------------------- the compact values and times
CompactValues ==
    {<<e, m1, m2, m3>> :
        e \in (0..MaxExponent) \cup {255},
        m1 \in {0, 1, 127, 128, 255}, m2 \in {0, 128, 255}, m3 \in {0, 1, 255}}

\* times around the limits and the timespan, and the greatest uint32
Times ==
    {ToUint32(t) : t \in {0, 1, 302399, 302400, 302401, 604800, 1209599, 1209600,
                          1209601, 2419200, 4838399, 4838400, 4838401}}
      \cup {<<255, 255, 255, 255>>}

\* hashes: zero, one, the greatest, and 0xffff * 256^26
PowHashes ==
    {[i \in 1..32 |-> 0], [i \in 1..32 |-> IF i = 32 THEN 1 ELSE 0], [i \in 1..32 |-> 255],
     [i \in 1..32 |-> IF i \in {5, 6} THEN 255 ELSE 0]}

\* calc in this specification: the call, the compact value, the time, the
\* hash, the target, the compact value returned and the boolean returned
PowCalc(op, bits, time, hash, target, out, ok) ==
    [op |-> op, bits |-> bits, time |-> time, hash |-> hash, target |-> target,
     out |-> out, ok |-> ok]

PowInit ==
    /\ \E bits \in CompactValues :
          \/ calc = PowCalc("bits", bits, ToUint32(0), << >>, << >>, ToUint32(0), FALSE)
          \/ \E t \in Times :
                calc = PowCalc("time", bits, t, << >>, << >>, ToUint32(0), FALSE)
          \/ \E h \in PowHashes :
                calc = PowCalc("hash", bits, ToUint32(0), h, << >>, ToUint32(0), FALSE)
    /\ ChainUnused
    /\ PeerUnused
    /\ WireUnused
    /\ ScriptUnused

\* CompactToBigTarget(bits)
CompactToBigTargetCall ==
    /\ calc.op = "bits"
    /\ calc' = [calc EXCEPT !.op = "CompactToBigTarget",
                            !.target = CompactToBigTarget256(calc.bits)]
    /\ UNCHANGED <<chainVars, peerVars, wireVars, scriptVars>>

\* BigTargetToCompact(target) on a decoded target
BigTargetToCompactCall ==
    /\ calc.op = "CompactToBigTarget"
    /\ calc' = [calc EXCEPT !.op = "BigTargetToCompact",
                            !.out = BigTargetToCompact(calc.target)]
    /\ UNCHANGED <<chainVars, peerVars, wireVars, scriptVars>>

\* ValidateProofOfWork(hash, bits)
ValidateProofOfWorkCall ==
    /\ calc.op = "hash"
    /\ calc' = [calc EXCEPT !.op = "ValidateProofOfWork",
                            !.target = CompactToBigTarget256(calc.bits),
                            !.ok = ValidateProofOfWork256(calc.hash, calc.bits)]
    /\ UNCHANGED <<chainVars, peerVars, wireVars, scriptVars>>

\* AdjustDifficulty(bits, time)
AdjustDifficultyCall ==
    /\ calc.op = "time"
    /\ calc' = [calc EXCEPT !.op = "AdjustDifficulty",
                            !.out = AdjustDifficulty(calc.bits, calc.time)]
    /\ UNCHANGED <<chainVars, peerVars, wireVars, scriptVars>>

PowNext ==
    \/ CompactToBigTargetCall
    \/ BigTargetToCompactCall
    \/ ValidateProofOfWorkCall
    \/ AdjustDifficultyCall

PowSpec == PowInit /\ [][PowNext]_vars

\* ---------------------------------------------------------------- C26
\* a compact value that is not zero and whose exponent is at most 32
ValidCompact(b) == b # ToUint32(0) /\ b[1] <= 32

Normalised(b) ==
    /\ b[2] # 0 \/ b[3] >= 128
    /\ b[1] < 3 => \A i \in (b[1] + 2)..4 : b[i] = 0

C27_InvalidTargetFailsAll ==
    (calc.op = "ValidateProofOfWork" /\ ~ValidCompact(calc.bits))
        => (calc.target = << >> /\ ~calc.ok)

\* ---------------------------------------------------------------- C28
\* clamp(t, 302400, 4838400)
Clamp(t) ==
    IF UintLess(t, ToUint32(302400)) THEN 302400
    ELSE IF UintLess(ToUint32(4838400), t) THEN 4838400
    ELSE Uint32ToInt(t)

\* C28: AdjustDifficulty returns bits unchanged when t is 0 or 1209600, for
\* every other t the compact encoding of
\* floor(target(bits) * clamp(t, 302400, 4838400) / 1209600), and the
\* decoded result is at most four times the decoded bits.
C28_AdjustDifficulty ==
    calc.op = "AdjustDifficulty" =>
        /\ calc.time \in {ToUint32(0), ToUint32(1209600)} => calc.out = calc.bits
        /\ calc.time \notin {ToUint32(0), ToUint32(1209600)} =>
              calc.out = BigTargetToCompact(
                             Div(Mul(CompactToBigTarget256(calc.bits), Clamp(calc.time)),
                                 1209600))
        /\ Cmp(CompactToBigTarget256(calc.out),
               Mul(CompactToBigTarget256(calc.bits), 4)) <= 0

\* a time above the upper limit has changed 0x1d00ffff to four times the
\* target
C28_Witness ==
    /\ calc.op = "AdjustDifficulty"
    /\ calc.bits = <<29, 0, 255, 255>>
    /\ calc.time = <<255, 255, 255, 255>>
    /\ CompactToBigTarget256(calc.out) = Mul(CompactToBigTarget256(calc.bits), 4)

\* ===================================================== the header id cache
\* The greatest number of header values.
MaxHeaders == 2

\* DoubleHashSHA256: 32 bytes, each computed from the bytes of the data at
\* three places, so that every byte of 80 bytes of data is used
DoubleHashSHA256(data) ==
    LET n == Len(data)
    IN  [i \in 1..32 |->
            IF n = 0 THEN (i * i) % 256
            ELSE (data[((i - 1) % n) + 1] * 5 + data[((i + 31) % n) + 1] * 3
                    + data[((i + 63) % n) + 1] * 7 + n + i * i) % 256]

\* BlockHeader.serialize: the 80 bytes; writing to the buffer never fails
serialize(bh) ==
    LittleEndian(bh.Version)
      \o LittleEndian(bh.PrevBlockHash)
      \o LittleEndian(bh.MerkleRoot)
      \o LittleEndian(bh.Timestamp)
      \o LittleEndian(bh.Bits)
      \o LittleEndian(bh.Nonce)

\* BlockHeader.Hash: the hash returned and the header afterwards; the
\* cached hash is a sequence of length 0 (nil) or 1.  A cached hash is never
\* written through its pointer, so a copied pointer is a copied value.
BlockHeaderHash(bh) ==
    IF bh.hash = << >>
    THEN LET rawBytes == DoubleHashSHA256(serialize(bh))
             hash == [i \in 1..32 |-> rawBytes[33 - i]]
         IN  [hash |-> hash, bh |-> [bh EXCEPT !.hash = <<hash>>]]
    ELSE [hash |-> bh.hash[1], bh |-> bh]

\* NewBlockHeader
NewBlockHeader(version, prevHash, merkleRoot, timestamp, bits, nonce) ==
    [Version |-> version, PrevBlockHash |-> prevHash, MerkleRoot |-> merkleRoot,
     Timestamp |-> timestamp, Bits |-> bits, Nonce |-> nonce, hash |-> << >>]

\* --------------------------------------------------------------- the headers
HeaderNonces == {ToUint32(1), ToUint32(2), <<1, 0, 0, 0>>}

\* calc in this specification: the header values, the latest call, the
\* header it was made on and the hash it returned
HeaderInit ==
    /\ \E prev \in {[i \in 1..32 |-> 0], CodecHash} : \E nonce \in HeaderNonces :
          calc = [headers |-> <<NewBlockHeader(ToUint32(1), prev, [i \in 1..32 |-> 0],
                                               <<73, 150, 2, 210>>, <<29, 0, 255, 255>>,
                                               nonce)>>,
                  op |-> "new", at |-> 1, out |-> << >>]
    /\ ChainUnused
    /\ PeerUnused
    /\ WireUnused
    /\ ScriptUnused

\* bh.Hash() on the i-th header value
HashCall ==
    /\ \E i \in 1..Len(calc.headers) :
          LET r == BlockHeaderHash(calc.headers[i])
          IN  calc' = [headers |-> [calc.headers EXCEPT ![i] = r.bh],
                       op |-> "Hash", at |-> i, out |-> r.hash]
    /\ UNCHANGED <<chainVars, peerVars, wireVars, scriptVars>>

\* a copy of the i-th header value, as NewBlock(header, transactions) and an
\* assignment make: the fields and the pointer to the cached hash
CopyHeaderCall ==
    /\ Len(calc.headers) < MaxHeaders
    /\ \E i \in 1..Len(calc.headers) :
          calc' = [headers |-> Append(calc.headers, calc.headers[i]),
                   op |-> "copy", at |-> Len(calc.headers) + 1, out |-> << >>]
    /\ UNCHANGED <<chainVars, peerVars, wireVars, scriptVars>>

\* header.Nonce = nonce on the i-th header value
SetNonceCall ==
    /\ \E i \in 1..Len(calc.headers) : \E nonce \in HeaderNonces :
          /\ calc.headers[i].Nonce # nonce
          /\ calc' = [headers |-> [calc.headers EXCEPT ![i].Nonce = nonce],
                      op |-> "set", at |-> i, out |-> << >>]
    /\ UNCHANGED <<chainVars, peerVars, wireVars, scriptVars>>

HeaderNext == HashCall \/ CopyHeaderCall \/ SetNonceCall

HeaderSpec == HeaderInit /\ [][HeaderNext]_vars

\* ---------------------------------------------------------------- C29
\* C29: every call of Hash() returns the byte-reversed double SHA-256 of
\* the 80-byte serialisation of the header's current field values, also on
\* later calls and on a copy whose fields were changed after the id of the
\* original had been computed.
C29_HashOfCurrentFields ==
    calc.op = "Hash" =>
        LET bh == calc.headers[calc.at]
        IN  /\ Len(serialize(bh)) = 80
            /\ calc.out = LittleEndian(DoubleHashSHA256(serialize(bh)))

\* ========================================================= the Merkle root
\* The greatest number of transaction ids given to CalculateMerkleRoot.
MaxHashes == 5

\* In this part a Hash256 is a sequence of numbers: a transaction id is
\* <<k>> with k >= 0, <<0>> being the zero hash, and the double SHA-256 of
\* two concatenated hashes is written <<-1>> \o left \o right, which differs
\* for different pairs and from every transaction id.
MerkleZeroHash == <<0>>

doubleSHA256(left, right) == <<-1>> \o left \o right

\* the inner loop of CalculateMerkleRoot: the pairs from index i (counted
\* from 0) on, combined and appended to nextLevel
RECURSIVE CombinePairs(_, _, _)
CombinePairs(hashes, i, nextLevel) ==
    IF i >= Len(hashes) THEN nextLevel
    ELSE LET left == hashes[i + 1]
             right == IF i + 1 < Len(hashes) THEN hashes[i + 2] ELSE hashes[i + 1]
         IN  CombinePairs(hashes, i + 2, Append(nextLevel, doubleSHA256(left, right)))

\* the outer loop: level by level until one hash is left
RECURSIVE BuildLevels(_)
BuildLevels(hashes) ==
    IF Len(hashes) > 1 THEN BuildLevels(CombinePairs(hashes, 0, << >>)) ELSE hashes[1]

\* CalculateMerkleRoot without the case of a single id
CalculateMerkleRoot_NoSingle(txHashes) ==
    IF Len(txHashes) = 0 THEN MerkleZeroHash
    ELSE IF Len(txHashes) = 1 THEN doubleSHA256(txHashes[1], txHashes[1])
    ELSE BuildLevels(txHashes)

CalculateMerkleRoot(txHashes) ==
    IF Len(txHashes) = 0 THEN MerkleZeroHash
    ELSE IF Len(txHashes) = 1 THEN txHashes[1]
    ELSE BuildLevels(txHashes)

\* ------------------------------------------------------ the lists of ids
TxIds == {<<0>>, <<1>>, <<2>>}

MerkleInit ==
    /\ \E txHashes \in SeqsUpTo(TxIds, MaxHashes) :
          calc = [op |-> "ids", txHashes |-> txHashes, root |-> << >>]
    /\ ChainUnused
    /\ PeerUnused
    /\ WireUnused
    /\ ScriptUnused

\* CalculateMerkleRoot(txHashes)
CalculateMerkleRootCall ==
    /\ calc.op = "ids"
    /\ calc' = [op |-> "CalculateMerkleRoot", txHashes |-> calc.txHashes,
                root |-> CalculateMerkleRoot(calc.txHashes)]
    /\ UNCHANGED <<chainVars, peerVars, wireVars, scriptVars>>

MerkleNext == CalculateMerkleRootCall

MerkleSpec == MerkleInit /\ [][MerkleNext]_vars

\* ---------------------------------------------------------------- C30
\* the reference definition: the level above a level pairs the elements
\* 2k-1 and 2k, the last element of an odd-sized level with itself
LevelAbove(level) ==
    [k \in 1..((Len(level) + 1) \div 2) |->
        <<-1>> \o level[2 * k - 1]
               \o (IF 2 * k <= Len(level) THEN level[2 * k] ELSE level[2 * k - 1])]

RECURSIVE ReferenceRoot(_)
ReferenceRoot(level) ==
    IF Len(level) = 0 THEN <<0>>
    ELSE IF Len(level) = 1 THEN level[1]
    ELSE ReferenceRoot(LevelAbove(level))

\* C30: CalculateMerkleRoot is the zero hash for no ids, the id itself for
\* one id, and otherwise the hash left after combining adjacent pairs level
\* by level, the last element of an odd-sized level paired with itself.
C30_MerkleRootIsReference ==
    calc.op = "CalculateMerkleRoot" =>
        /\ calc.root = ReferenceRoot(calc.txHashes)
        /\ Len(calc.txHashes) = 0 => calc.root = <<0>>
        /\ Len(calc.txHashes) = 1 => calc.root = calc.txHashes[1]
        /\ Len(calc.txHashes) = 3 =>
              calc.root = <<-1>> \o (<<-1>> \o calc.txHashes[1] \o calc.txHashes[2])
                                 \o (<<-1>> \o calc.txHashes[3] \o calc.txHashes[3])

\* the root of five ids, which has two odd-sized levels, has been computed
C30_Witness ==
    /\ calc.op = "CalculateMerkleRoot"
    /\ Len(calc.txHashes) = 5
    /\ calc.root = ReferenceRoot(calc.txHashes)

====
